---- MODULE Spec2Model ----
(***************************************************************************)
(* A model of the nbabetinfo pipeline: locating a table in a parsed page,  *)
(* normalising its cell texts, and folding a team's persisted game records *)
(* into betting metrics and rankings.                                      *)
(*                                                                         *)
(* Texts are sequences of one-character strings, so that trimming, case    *)
(* folding, substring search and number parsing are computed, not assumed. *)
(* Python floats are modelled as exact rationals in lowest terms (binary   *)
(* rounding is not modelled).                                              *)
(***************************************************************************)
EXTENDS Integers, Sequences, FiniteSets, TLC

(***************************************************************************)
(* Python values                                                           *)
(***************************************************************************)
None == [kind |-> "None"]

Str(t) == [kind |-> "str", s |-> t]

PyInt(n) == [kind |-> "int", n |-> n]

Raised(e) == [kind |-> "raise", exc |-> e]

ValueError == Raised("ValueError")

TypeError == Raised("TypeError")

KeyError == Raised("KeyError")

IsRaised(v) == v.kind = "raise"

FloatNaN == [kind |-> "nan"]

FloatInf(sgn) == [kind |-> "inf", sign |-> sgn]

Abs(n) == IF n < 0 THEN -n ELSE n

RECURSIVE Gcd(_, _)
Gcd(a, b) == IF b = 0 THEN a ELSE Gcd(b, a % b)

\* a finite float, kept in lowest terms with a positive denominator
Float(n, d) ==
  LET g == Gcd(Abs(n), d)
  IN  [kind |-> "float", n |-> n \div g, d |-> d \div g]

\* a + b on floats, with IEEE infinities and NaN
FloatAdd(a, b) ==
  IF a.kind = "nan" \/ b.kind = "nan" THEN FloatNaN
  ELSE IF a.kind = "inf" /\ b.kind = "inf"
  THEN IF a.sign = b.sign THEN a ELSE FloatNaN
  ELSE IF a.kind = "inf" THEN a
  ELSE IF b.kind = "inf" THEN b
  ELSE Float(a.n * b.d + b.n * a.d, a.d * b.d)

\* -a
FloatNeg(a) ==
  IF a.kind = "nan" THEN a
  ELSE IF a.kind = "inf" THEN FloatInf(-a.sign)
  ELSE Float(-a.n, a.d)

FloatSub(a, b) == FloatAdd(a, FloatNeg(b))

FloatOfInt(k) == Float(k, 1)

\* a > b; every comparison with NaN is false
FloatGt(a, b) ==
  IF a.kind = "nan" \/ b.kind = "nan" THEN FALSE
  ELSE IF a.kind = "inf" THEN a.sign = 1 /\ b # a
  ELSE IF b.kind = "inf" THEN b.sign = -1
  ELSE a.n * b.d > b.n * a.d

FloatLt(a, b) == FloatGt(b, a)

ZeroDivisionError == Raised("ZeroDivisionError")

\* a / k for a float a and an int k (a list length or a counter)
FloatDivInt(a, k) ==
  IF k = 0 THEN ZeroDivisionError
  ELSE IF a.kind # "float" THEN a
  ELSE Float(a.n, a.d * k)

\* j / k for two ints (true division)
IntDivInt(j, k) == IF k = 0 THEN ZeroDivisionError ELSE Float(j, k)

\* sum(xs) of a list of floats
RECURSIVE FloatSum(_)
FloatSum(xs) ==
  IF xs = <<>> THEN Float(0, 1)
  ELSE FloatAdd(FloatSum(SubSeq(xs, 1, Len(xs) - 1)), xs[Len(xs)])

(***************************************************************************)
(* Characters and str methods                                              *)
(***************************************************************************)
NBSP == "nbsp"

Digit == {"0", "1", "2", "3", "4", "5", "6", "7", "8", "9"}

DigitVal(c) ==
  CASE c = "0" -> 0 [] c = "1" -> 1 [] c = "2" -> 2 [] c = "3" -> 3
    [] c = "4" -> 4 [] c = "5" -> 5 [] c = "6" -> 6 [] c = "7" -> 7
    [] c = "8" -> 8 [] c = "9" -> 9

\* characters str.strip() removes and the regex class \s matches
Whitespace == {" ", "\t", "\n", NBSP}

LowerChar(c) ==
  CASE c = "A" -> "a" [] c = "B" -> "b" [] c = "C" -> "c" [] c = "D" -> "d"
    [] c = "E" -> "e" [] c = "F" -> "f" [] c = "G" -> "g" [] c = "H" -> "h"
    [] c = "I" -> "i" [] c = "J" -> "j" [] c = "K" -> "k" [] c = "L" -> "l"
    [] c = "M" -> "m" [] c = "N" -> "n" [] c = "O" -> "o" [] c = "P" -> "p"
    [] c = "Q" -> "q" [] c = "R" -> "r" [] c = "S" -> "s" [] c = "T" -> "t"
    [] c = "U" -> "u" [] c = "V" -> "v" [] c = "W" -> "w" [] c = "X" -> "x"
    [] c = "Y" -> "y" [] c = "Z" -> "z" [] OTHER -> c

lower(t) == [i \in 1..Len(t) |-> LowerChar(t[i])]

RECURSIVE lstrip(_)
lstrip(t) ==
  IF t # <<>> /\ t[1] \in Whitespace THEN lstrip(Tail(t)) ELSE t

RECURSIVE rstrip(_)
rstrip(t) ==
  IF t # <<>> /\ t[Len(t)] \in Whitespace
  THEN rstrip(SubSeq(t, 1, Len(t) - 1)) ELSE t

strip(t) == rstrip(lstrip(t))

\* str.replace(old, new) for a one-character old
ReplaceChar(t, old, new) == [i \in 1..Len(t) |-> IF t[i] = old THEN new ELSE t[i]]

\* str.replace(old, "") for a one-character old
RECURSIVE RemoveChar(_, _)
RemoveChar(t, old) ==
  IF t = <<>> THEN <<>>
  ELSE IF t[1] = old THEN RemoveChar(Tail(t), old)
  ELSE <<t[1]>> \o RemoveChar(Tail(t), old)

\* sub in t  (substring test)
Contains(t, sub) ==
  \E i \in 0..(Len(t) - Len(sub)) : SubSeq(t, i + 1, i + Len(sub)) = sub

startswith(t, pre) == Len(t) >= Len(pre) /\ SubSeq(t, 1, Len(pre)) = pre

\* " ".join(ts)
RECURSIVE JoinSpace(_)
JoinSpace(ts) ==
  IF ts = <<>> THEN <<>>
  ELSE IF Len(ts) = 1 THEN ts[1]
  ELSE ts[1] \o <<" ">> \o JoinSpace(Tail(ts))

(***************************************************************************)
(* int() and float() of a text                                             *)
(***************************************************************************)
IsDigits(s) == s # <<>> /\ \A i \in 1..Len(s) : s[i] \in Digit

RECURSIVE DigitsVal(_)
DigitsVal(s) ==
  IF s = <<>> THEN 0
  ELSE DigitsVal(SubSeq(s, 1, Len(s) - 1)) * 10 + DigitVal(s[Len(s)])

RECURSIVE Pow10(_)
Pow10(k) == IF k = 0 THEN 1 ELSE 10 * Pow10(k - 1)

SignOf(s) == IF s # <<>> /\ s[1] = "-" THEN -1 ELSE 1

Unsigned(s) == IF s # <<>> /\ s[1] \in {"+", "-"} THEN Tail(s) ELSE s

DotPositions(s) == {i \in 1..Len(s) : s[i] = "."}

\* int(text): surrounding whitespace, one optional sign, decimal digits
int(t) ==
  LET s == strip(t)
      b == Unsigned(s)
  IN  IF IsDigits(b) THEN PyInt(SignOf(s) * DigitsVal(b)) ELSE ValueError

\* float(text): surrounding whitespace, one optional sign, then a decimal
\* numeral with at most one point, or inf / infinity / nan in any case
float(t) ==
  LET s == strip(t)
      b == Unsigned(s)
      dots == DotPositions(b)
  IN  IF IsDigits(b) THEN Float(SignOf(s) * DigitsVal(b), 1)
      ELSE IF Cardinality(dots) = 1
      THEN LET p == CHOOSE i \in dots : TRUE
               ip == SubSeq(b, 1, p - 1)
               fp == SubSeq(b, p + 1, Len(b))
           IN  IF /\ (ip = <<>> \/ IsDigits(ip))
                  /\ (fp = <<>> \/ IsDigits(fp))
                  /\ (ip # <<>> \/ fp # <<>>)
               THEN Float(SignOf(s) * (DigitsVal(ip) * Pow10(Len(fp)) + DigitsVal(fp)),
                          Pow10(Len(fp)))
               ELSE ValueError
      ELSE IF lower(b) \in {<<"i", "n", "f">>, <<"i", "n", "f", "i", "n", "i", "t", "y">>}
      THEN FloatInf(SignOf(s))
      ELSE IF lower(b) = <<"n", "a", "n">> THEN FloatNaN
      ELSE ValueError

\* float(x) of a csv cell: a str is parsed, None is a TypeError
FloatOfCell(c) == IF c.kind = "str" THEN float(c.s) ELSE TypeError

\* int(x) of a csv cell
IntOfCell(c) == IF c.kind = "str" THEN int(c.s) ELSE TypeError

\* the truth value of a csv cell: None and "" are false
Truthy(c) == c.kind = "str" /\ c.s # <<>>

(***************************************************************************)
(* scrape_ats_results.py / scrape_teamrankings_nba.py: clean_text and the  *)
(* table locators.  A document is the list of its tables in document       *)
(* order; a table has no thead (None) or a thead with a list of rows, each *)
(* row the list of its th texts.                                           *)
(***************************************************************************)
\* clean_text of a str
clean_text(t) == strip(ReplaceChar(ReplaceChar(t, NBSP, " "), NBSP, " "))

Table(th) == [kind |-> "table", thead |-> th]

Thead(rs) == [kind |-> "thead", rows |-> rs]

\* the table element found, identified by its position in the document
Element(i) == [kind |-> "element", index |-> i]

\* headers = [clean_text(th.get_text()).lower() for th in header_row.find_all("th")]
HeadersOf(header_row) == [k \in 1..Len(header_row) |-> lower(clean_text(header_row[k]))]

\* x in headers (list membership)
InList(x, headers) == \E k \in 1..Len(headers) : headers[k] = x

W_date == <<"d", "a", "t", "e">>

W_opponent == <<"o", "p", "p", "o", "n", "e", "n", "t">>

W_line == <<"l", "i", "n", "e">>

W_diff == <<"d", "i", "f", "f">>

W_result == <<"r", "e", "s", "u", "l", "t">>

W_spread == <<"s", "p", "r", "e", "a", "d">>

W_total == <<"t", "o", "t", "a", "l">>

\* the test find_ats_table applies to one table
AtsHeaderTest(table) ==
  /\ table.thead # None
  /\ table.thead.rows # <<>>
  /\ LET headers == HeadersOf(table.thead.rows[1])
         headers_joined == JoinSpace(headers)
     IN  /\ InList(W_date, headers)
         /\ InList(W_opponent, headers)
         /\ Contains(headers_joined, W_line)
         /\ InList(W_diff, headers)

required_cols == {W_date, W_opponent, W_result, W_spread, W_total}

\* the test find_betting_table applies to one table
BettingHeaderTest(table) ==
  /\ table.thead # None
  /\ table.thead.rows # <<>>
  /\ LET headers == HeadersOf(table.thead.rows[1])
         headers_joined == JoinSpace(headers)
     IN  \A col \in required_cols : Contains(headers_joined, col)

\* find_ats_table returning the last table that passes instead of the first
RECURSIVE AtsTableLoop_Last(_, _)
AtsTableLoop_Last(tables, i) ==
  IF i > Len(tables) THEN None
  ELSE LET later == AtsTableLoop_Last(tables, i + 1)
       IN  IF later # None THEN later
           ELSE IF AtsHeaderTest(tables[i]) THEN Element(i) ELSE None

\* the loop of find_ats_table from the i-th table on
RECURSIVE AtsTableLoop(_, _)
AtsTableLoop(tables, i) ==
  IF i > Len(tables) THEN None
  ELSE IF AtsHeaderTest(tables[i]) THEN Element(i)
  ELSE AtsTableLoop(tables, i + 1)

find_ats_table(soup) == AtsTableLoop(soup, 1)

RECURSIVE BettingTableLoop(_, _)
BettingTableLoop(tables, i) ==
  IF i > Len(tables) THEN None
  ELSE IF BettingHeaderTest(tables[i]) THEN Element(i)
  ELSE BettingTableLoop(tables, i + 1)

find_betting_table(soup) == BettingTableLoop(soup, 1)

(***************************************************************************)
(* The field normalizers.  A regular expression is modelled by the scan it *)
(* performs: re.search tries every start position from the left, re.match  *)
(* only the first; the patterns used here never need to backtrack, because *)
(* each repeated class is followed by a character outside that class.      *)
(***************************************************************************)
Pair(a, b) == [kind |-> "tuple", first |-> a, second |-> b]

NoMatch == [kind |-> "nomatch"]

\* the first position >= i of t that is not in the class cls (Len(t)+1 if none)
RECURSIVE SkipClass(_, _, _)
SkipClass(t, i, cls) ==
  IF i <= Len(t) /\ t[i] \in cls THEN SkipClass(t, i + 1, cls) ELSE i

DigitOrDot == Digit \cup {"."}

\* scrape_ats_results.parse_spread
ats_parse_spread(text0) ==
  LET text == clean_text(text0)
      v == float(text)
  IN  IF text = <<>> \/ text = <<"-">> \/ lower(text) = <<"n", "/", "a">>
         \/ lower(text) = <<"p", "k">>
      THEN None
      ELSE IF IsRaised(v) THEN None ELSE v

\* scrape_teamrankings_nba.parse_spread
betting_parse_spread(text0) ==
  LET text == clean_text(text0)
      v == float(RemoveChar(text, "+"))
  IN  IF text = <<>> \/ text = <<"-">> \/ lower(text) = <<"n", "/", "a">>
         \/ lower(text) = <<"p", "k">>
      THEN None
      ELSE IF IsRaised(v) THEN None ELSE v

parse_diff(text0) ==
  LET text == clean_text(text0)
      v == float(text)
  IN  IF text = <<>> \/ text = <<"-">> \/ lower(text) = <<"n", "/", "a">>
      THEN None
      ELSE IF IsRaised(v) THEN None ELSE v

parse_int_or_none(text0) ==
  LET text == clean_text(text0)
      v == int(text)
  IN  IF text = <<>> \/ text = <<"-">> \/ lower(text) = <<"n", "/", "a">>
      THEN None
      ELSE IF IsRaised(v) THEN None ELSE v

W_home == <<"h", "o", "m", "e">>
W_away == <<"a", "w", "a", "y">>
W_neutral == <<"n", "e", "u", "t", "r", "a", "l">>
W_dash == <<"-">>
W_note == <<"n", "o", "t", "e", ":">>

infer_home_away(opponent_text0) ==
  LET opponent_text == lower(clean_text(opponent_text0))
  IN  IF startswith(opponent_text, <<"@">>) \/ startswith(opponent_text, <<"a", "t", " ">>)
      THEN Str(W_away)
      ELSE Str(W_home)

\* re.sub(r"^@\s*", "", t)
SubAt(t) == IF startswith(t, <<"@">>) THEN lstrip(Tail(t)) ELSE t

\* re.sub(r"^at\s+", "", t, flags=re.IGNORECASE)
SubAtWord(t) ==
  IF Len(t) >= 3 /\ lower(SubSeq(t, 1, 2)) = <<"a", "t">> /\ t[3] \in Whitespace
  THEN lstrip(SubSeq(t, 3, Len(t)))
  ELSE t

extract_opponent_name(opponent_text0) ==
  Str(strip(SubAtWord(SubAt(clean_text(opponent_text0)))))

\* group 1 of  <c1><c2>?\s+([\d.]+)  matched at position i, or NoMatch
IndicatorAt(t, i, c1, c2) ==
  IF ~(i <= Len(t) /\ t[i] \in c1) THEN NoMatch
  ELSE LET j == IF i + 1 <= Len(t) /\ t[i + 1] \in c2 THEN i + 2 ELSE i + 1
           k == SkipClass(t, j, Whitespace)
           e == SkipClass(t, k, DigitOrDot)
       IN  IF k > j /\ e > k THEN Str(SubSeq(t, k, e - 1)) ELSE NoMatch

\* re.search of that pattern: the match at the leftmost position that has one
RECURSIVE IndicatorSearch(_, _, _, _)
IndicatorSearch(t, i, c1, c2) ==
  IF i > Len(t) THEN NoMatch
  ELSE IF IndicatorAt(t, i, c1, c2) # NoMatch THEN IndicatorAt(t, i, c1, c2)
  ELSE IndicatorSearch(t, i + 1, c1, c2)

\* parse_total; float(match.group(1)) is outside the try block
parse_total(text0) ==
  LET text == clean_text(text0)
      ov == IndicatorSearch(text, 1, {"O", "o"}, {"v", "V"})
      un == IndicatorSearch(text, 1, {"U", "u"}, {"n", "N"})
      v == float(text)
  IN  IF text = <<>> \/ text = <<"-">> \/ lower(text) = <<"n", "/", "a">>
      THEN None
      ELSE IF ov # NoMatch THEN float(ov.s)
      ELSE IF un # NoMatch THEN float(un.s)
      ELSE IF IsRaised(v) THEN None ELSE v

\* re.match(r"([WL])\s+by\s+(\d+)", text)
\* parse_result with a pattern that takes the outcome letter in any case
parse_result_AnyCase(text0) ==
  LET text == clean_text(text0)
      b == SkipClass(text, 2, Whitespace)
      w == SkipClass(text, b + 2, Whitespace)
      e == SkipClass(text, w, Digit)
  IN  IF text = <<>> \/ text = <<"-">> THEN Pair(None, None)
      ELSE IF /\ text[1] \in {"W", "L", "w", "l"}
              /\ b > 2
              /\ b + 1 <= Len(text)
              /\ SubSeq(text, b, b + 1) = <<"b", "y">>
              /\ w > b + 2
              /\ e > w
      THEN Pair(Str(<<text[1]>>), int(SubSeq(text, w, e - 1)))
      ELSE Pair(None, None)

parse_result(text0) ==
  LET text == clean_text(text0)
      b == SkipClass(text, 2, Whitespace)
      w == SkipClass(text, b + 2, Whitespace)
      e == SkipClass(text, w, Digit)
  IN  IF text = <<>> \/ text = <<"-">> THEN Pair(None, None)
      ELSE IF /\ text[1] \in {"W", "L"}
              /\ b > 2
              /\ b + 1 <= Len(text)
              /\ SubSeq(text, b, b + 1) = <<"b", "y">>
              /\ w > b + 2
              /\ e > w
      THEN Pair(Str(<<text[1]>>), int(SubSeq(text, w, e - 1)))
      ELSE Pair(None, None)

\* the groups of  [WL]\s+(\d+)\s*-\s*(\d+)  matched at position i, or NoMatch
ScoresAt(t, i) ==
  IF ~(i <= Len(t) /\ t[i] \in {"W", "L"}) THEN NoMatch
  ELSE LET a == SkipClass(t, i + 1, Whitespace)
           b == SkipClass(t, a, Digit)
           c == SkipClass(t, b, Whitespace)
           d == SkipClass(t, c + 1, Whitespace)
           e == SkipClass(t, d, Digit)
       IN  IF a > i + 1 /\ b > a /\ c <= Len(t) /\ t[c] = "-" /\ e > d
           THEN Pair(Str(SubSeq(t, a, b - 1)), Str(SubSeq(t, d, e - 1)))
           ELSE NoMatch

RECURSIVE ScoresSearch(_, _)
ScoresSearch(t, i) ==
  IF i > Len(t) THEN NoMatch
  ELSE IF ScoresAt(t, i) # NoMatch THEN ScoresAt(t, i)
  ELSE ScoresSearch(t, i + 1)

parse_scores(result_text) ==
  LET m == ScoresSearch(result_text, 1)
  IN  IF result_text = <<>> THEN Pair(None, None)
      ELSE IF m # NoMatch THEN Pair(int(m.first.s), int(m.second.s))
      ELSE Pair(None, None)

(***************************************************************************)
(* The table parsers.  A table with a body section carries the list of its *)
(* body rows, each row the list of its td texts; a table without a tbody   *)
(* has tbody None.  The parser's result is the list of its game dicts, or  *)
(* the exception a normalizer raised.                                      *)
(***************************************************************************)
\* a list held in a variable
List(its) == [kind |-> "list", items |-> its]

Tbody(rs) == [kind |-> "tbody", rows |-> rs]

BodyTable(th, tb) == [kind |-> "table", thead |-> th, tbody |-> tb]

\* the dict built from the cleaned texts of a row's first seven cells, or
\* None for a skipped row; res is parse_result(result_text), rank is
\* int(opp_rank_text)
AtsGameOf(date_text, home_away_text, opponent_text, opp_rank_text, line_text, res, rank, diff_text) ==
  IF lower(date_text) = W_date \/ date_text = <<>> \/ date_text = W_dash
  THEN None
  ELSE [kind |-> "dict",
        date |-> Str(date_text),
        home_away |-> IF home_away_text \in {W_home, W_away, W_neutral}
                      THEN Str(home_away_text) ELSE Str(W_home),
        opponent |-> Str(opponent_text),
        opp_rank |-> IF opp_rank_text # <<>> /\ opp_rank_text # W_dash /\ ~IsRaised(rank)
                     THEN rank ELSE None,
        spread |-> ats_parse_spread(line_text),
        result |-> res.first,
        margin |-> res.second,
        ats_diff |-> parse_diff(diff_text)]

\* the dict built from one row of the ATS table, or None for a skipped row
AtsGame(cells) ==
  IF Len(cells) < 7 THEN None
  ELSE AtsGameOf(clean_text(cells[1]), lower(clean_text(cells[2])),
                 clean_text(cells[3]), clean_text(cells[4]), clean_text(cells[5]),
                 parse_result(clean_text(cells[6])), int(clean_text(cells[4])),
                 clean_text(cells[7]))

\* for row in rows, from row i on, games being the dicts appended so far
RECURSIVE AtsGamesLoop(_, _, _)
AtsGamesLoop(rows, i, games) ==
  IF i > Len(rows) THEN games
  ELSE LET game == AtsGame(rows[i])
       IN  AtsGamesLoop(rows, i + 1,
                        IF game = None THEN games ELSE Append(games, game))

parse_ats_table(table, team_slug) ==
  IF table.tbody = None THEN List(<<>>)
  ELSE List(AtsGamesLoop(table.tbody.rows, 1, <<>>))

\* the dict built from the cleaned texts of a row's cells, None for a
\* skipped row, or the exception parse_total raised; scores is
\* parse_scores(result_text), total is parse_total(total_text)
BettingGameOf(date_text, opponent_text, result_text, location_text, spread_text, scores, total, money_text) ==
  IF \/ lower(date_text) = W_date
     \/ Contains(lower(date_text), W_note)
     \/ date_text = <<>>
  THEN None
  ELSE IF IsRaised(total) THEN total
  ELSE [kind |-> "dict",
        date |-> Str(date_text),
        opponent |-> Str(opponent_text),
        home_away |-> IF location_text \in {W_home, W_away}
                      THEN Str(location_text) ELSE Str(W_home),
        result_raw |-> Str(result_text),
        team_score |-> scores.first,
        opp_score |-> scores.second,
        spread |-> betting_parse_spread(spread_text),
        total |-> total,
        moneyline |-> parse_int_or_none(money_text)]

\* the dict built from one row of the schedule/betting table
BettingGame(cells) ==
  IF Len(cells) < 9 THEN None
  ELSE BettingGameOf(clean_text(cells[1]), clean_text(cells[2]), clean_text(cells[3]),
                     lower(clean_text(cells[4])), clean_text(cells[7]),
                     parse_scores(clean_text(cells[3])),
                     parse_total(clean_text(cells[8])), clean_text(cells[9]))

\* for row in rows, from row i on; an exception ends the loop
RECURSIVE BettingGamesLoop(_, _, _)
BettingGamesLoop(rows, i, games) ==
  IF i > Len(rows) THEN List(games)
  ELSE LET game == BettingGame(rows[i])
       IN  IF IsRaised(game) THEN game
           ELSE BettingGamesLoop(rows, i + 1,
                                 IF game = None THEN games ELSE Append(games, game))

parse_betting_table(table) ==
  IF table.tbody = None THEN List(<<>>)
  ELSE BettingGamesLoop(table.tbody.rows, 1, <<>>)

(***************************************************************************)
(* Persisted records: a csv file is absent, or a schema (its header line)  *)
(* and a list of rows; csv.DictReader gives each row as a dict from the    *)
(* header's column names to a str, or to None for a row that is too short. *)
(***************************************************************************)
Absent == [kind |-> "absent"]

CsvFile(cols, rs) == [kind |-> "file", columns |-> cols, rows |-> rs]

\* row[key]
Lookup(row, key) == IF key \in DOMAIN row THEN row[key] ELSE KeyError

(***************************************************************************)
(* Writing the games: csv.DictWriter writes str(value) of every field and  *)
(* the empty text for None.  str of a float is its shortest decimal; the   *)
(* floats a scraper holds come from float(text) of a short decimal, so the *)
(* positional form with at least one fraction digit is what is written     *)
(* (exponent forms, beyond 1e16 or below 1e-4, are not modelled).          *)
(***************************************************************************)
DigitChar(k) ==
  CASE k = 0 -> "0" [] k = 1 -> "1" [] k = 2 -> "2" [] k = 3 -> "3"
    [] k = 4 -> "4" [] k = 5 -> "5" [] k = 6 -> "6" [] k = 7 -> "7"
    [] k = 8 -> "8" [] k = 9 -> "9"

\* the decimal digits of a natural number
RECURSIVE NatText(_)
NatText(n) ==
  IF n < 10 THEN <<DigitChar(n)>>
  ELSE Append(NatText(n \div 10), DigitChar(n % 10))

\* the last k decimal digits of n, with leading zeros
RECURSIVE FracText(_, _)
FracText(n, k) ==
  IF k = 0 THEN <<>>
  ELSE Append(FracText(n \div 10, k - 1), DigitChar(n % 10))

\* str(n) of an int
IntText(n) == IF n < 0 THEN <<"-">> \o NatText(-n) ELSE NatText(n)

\* str(v) of a float
FloatText(v) ==
  IF v.kind = "nan" THEN <<"n", "a", "n">>
  ELSE IF v.kind = "inf"
  THEN IF v.sign < 0 THEN <<"-", "i", "n", "f">> ELSE <<"i", "n", "f">>
  ELSE
    LET k == CHOOSE j \in 0..17 :
               /\ Pow10(j) % v.d = 0
               /\ \A h \in 0..(j - 1) : Pow10(h) % v.d # 0
        whole == Abs(v.n) \div v.d
        frac == (Abs(v.n) % v.d) * (Pow10(k) \div v.d)
    IN  (IF v.n < 0 THEN <<"-">> ELSE <<>>)
        \o NatText(whole) \o <<".">>
        \o (IF k = 0 THEN <<"0">> ELSE FracText(frac, k))

\* the cell csv.DictReader reads back for a value csv.DictWriter wrote
CsvCell(v) ==
  IF v.kind = "None" THEN Str(<<>>)
  ELSE IF v.kind = "str" THEN v
  ELSE IF v.kind = "int" THEN Str(IntText(v.n))
  ELSE Str(FloatText(v))

ats_fieldnames ==
  {"date", "home_away", "opponent", "opp_rank", "spread", "result", "margin", "ats_diff"}

betting_fieldnames ==
  {"date", "opponent", "home_away", "result_raw", "team_score", "opp_score",
   "spread", "total", "moneyline"}

\* the file write_to_csv leaves at output_path
write_to_csv(games, fieldnames) ==
  CsvFile(fieldnames,
          [i \in 1..Len(games.items) |->
             [f \in fieldnames |-> CsvCell(games.items[i][f])]])

(***************************************************************************)
(* One run of a single-team scraper.  fetch_page gives a response with a   *)
(* status code and the page's tables, or fails with a RequestException;    *)
(* the run ends with an exit status and the file at its output path.       *)
(* An uncaught exception ends the interpreter with status 1.               *)
(***************************************************************************)
RequestException == [kind |-> "RequestException"]

Response(code, tables) == [kind |-> "response", status_code |-> code, content |-> tables]

Exit(code, file) == [kind |-> "exit", status |-> code, output |-> file]

\* fetch_page ends the run unless it got a response with status 200
FetchFails(response) ==
  response.kind = "RequestException" \/ response.status_code # 200

\* WriteOrFail with the output file opened for writing before the table is
\* looked for, so that a run without a table leaves an empty file
WriteOrFail_OpensFirst(table, games, fieldnames, output_file, writable) ==
  IF table = None
  THEN Exit(1, IF writable THEN write_to_csv(List(<<>>), fieldnames) ELSE output_file)
  ELSE IF IsRaised(games) THEN Exit(1, output_file)
  ELSE IF ~writable THEN Exit(1, output_file)
  ELSE Exit(0, write_to_csv(games, fieldnames))

\* the rest of main once the table is located: an exception of the parser
\* is not caught; writable says whether open(output_path, "w") succeeds
WriteOrFail(table, games, fieldnames, output_file, writable) ==
  IF table = None THEN Exit(1, output_file)
  ELSE IF IsRaised(games) THEN Exit(1, output_file)
  ELSE IF ~writable THEN Exit(1, output_file)
  ELSE Exit(0, write_to_csv(games, fieldnames))

\* the table the locator returned, None if it returned none
TableAt(tables, element) ==
  IF element = None THEN None ELSE tables[element.index]

\* scrape_ats_results.main
ats_main(response, team_slug, output_file, writable) ==
  IF FetchFails(response) THEN Exit(1, output_file)
  ELSE WriteOrFail(find_ats_table(response.content),
                   parse_ats_table(TableAt(response.content,
                                           find_ats_table(response.content)),
                                   team_slug),
                   ats_fieldnames, output_file, writable)

\* scrape_teamrankings_nba.main
betting_main(response, team_slug, output_file, writable) ==
  IF FetchFails(response) THEN Exit(1, output_file)
  ELSE WriteOrFail(find_betting_table(response.content),
                   parse_betting_table(TableAt(response.content,
                                               find_betting_table(response.content))),
                   betting_fieldnames, output_file, writable)

(***************************************************************************)
(* scrape_all_ats.py                                                       *)
(***************************************************************************)
NBA_TEAMS ==
  <<"atlanta-hawks", "boston-celtics", "brooklyn-nets", "charlotte-hornets",
    "chicago-bulls", "cleveland-cavaliers", "dallas-mavericks", "denver-nuggets",
    "detroit-pistons", "golden-state-warriors", "houston-rockets", "indiana-pacers",
    "los-angeles-clippers", "los-angeles-lakers", "memphis-grizzlies", "miami-heat",
    "milwaukee-bucks", "minnesota-timberwolves", "new-orleans-pelicans",
    "new-york-knicks", "oklahoma-city-thunder", "orlando-magic",
    "philadelphia-76ers", "phoenix-suns", "portland-trail-blazers",
    "sacramento-kings", "san-antonio-spurs", "toronto-raptors", "utah-jazz",
    "washington-wizards">>

(***************************************************************************)
(* calculate_ats_metrics.py                                                *)
(***************************************************************************)
AtsAcc0 ==
  [exc |-> None, ats_diffs |-> <<>>, fav_diffs |-> <<>>, dog_diffs |-> <<>>,
   ats_wins |-> 0, ats_losses |-> 0]

\* AtsRow with a push (ats_diff = 0) taken as a cover
AtsRow_PushCovers(acc, row) ==
  LET dcell == Lookup(row, "ats_diff")
      ats_diff == FloatOfCell(dcell)
      scell == Lookup(row, "spread")
      spread == FloatOfCell(scell)
  IN  IF IsRaised(dcell) THEN [acc EXCEPT !.exc = dcell]
      ELSE IF ~Truthy(dcell) THEN acc
      ELSE IF IsRaised(ats_diff) THEN acc
      ELSE IF IsRaised(scell) THEN [acc EXCEPT !.exc = scell]
      ELSE IF IsRaised(spread) THEN acc
      ELSE [acc EXCEPT
              !.ats_diffs = Append(@, ats_diff),
              !.fav_diffs = IF FloatLt(spread, Float(0, 1)) THEN Append(@, ats_diff) ELSE @,
              !.dog_diffs = IF ~FloatLt(spread, Float(0, 1)) /\ FloatGt(spread, Float(0, 1))
                            THEN Append(@, ats_diff) ELSE @,
              !.ats_wins = IF ~FloatLt(ats_diff, Float(0, 1)) THEN @ + 1 ELSE @,
              !.ats_losses = IF ~FloatLt(ats_diff, Float(0, 1)) THEN @ ELSE @ + 1]

\* AtsRow with a pick'em (spread = 0) taken as a favourite game
AtsRow_PickemFav(acc, row) ==
  LET dcell == Lookup(row, "ats_diff")
      ats_diff == FloatOfCell(dcell)
      scell == Lookup(row, "spread")
      spread == FloatOfCell(scell)
  IN  IF IsRaised(dcell) THEN [acc EXCEPT !.exc = dcell]
      ELSE IF ~Truthy(dcell) THEN acc
      ELSE IF IsRaised(ats_diff) THEN acc
      ELSE IF IsRaised(scell) THEN [acc EXCEPT !.exc = scell]
      ELSE IF IsRaised(spread) THEN acc
      ELSE [acc EXCEPT
              !.ats_diffs = Append(@, ats_diff),
              !.fav_diffs = IF ~FloatGt(spread, Float(0, 1)) THEN Append(@, ats_diff) ELSE @,
              !.dog_diffs = IF ~FloatLt(spread, Float(0, 1)) /\ FloatGt(spread, Float(0, 1))
                            THEN Append(@, ats_diff) ELSE @,
              !.ats_wins = IF FloatGt(ats_diff, Float(0, 1)) THEN @ + 1 ELSE @,
              !.ats_losses = IF FloatGt(ats_diff, Float(0, 1)) THEN @ ELSE @ + 1]

\* one iteration of the loop over the reader's rows
AtsRow(acc, row) ==
  LET dcell == Lookup(row, "ats_diff")
      ats_diff == FloatOfCell(dcell)
      scell == Lookup(row, "spread")
      spread == FloatOfCell(scell)
  IN  IF IsRaised(dcell) THEN [acc EXCEPT !.exc = dcell]
      ELSE IF ~Truthy(dcell) THEN acc
      ELSE IF IsRaised(ats_diff) THEN acc
      ELSE IF IsRaised(scell) THEN [acc EXCEPT !.exc = scell]
      ELSE IF IsRaised(spread) THEN acc
      ELSE [acc EXCEPT
              !.ats_diffs = Append(@, ats_diff),
              !.fav_diffs = IF FloatLt(spread, Float(0, 1)) THEN Append(@, ats_diff) ELSE @,
              !.dog_diffs = IF ~FloatLt(spread, Float(0, 1)) /\ FloatGt(spread, Float(0, 1))
                            THEN Append(@, ats_diff) ELSE @,
              !.ats_wins = IF FloatGt(ats_diff, Float(0, 1)) THEN @ + 1 ELSE @,
              !.ats_losses = IF FloatGt(ats_diff, Float(0, 1)) THEN @ ELSE @ + 1]

\* the loop: an exception other than ValueError/TypeError ends it
RECURSIVE AtsLoop(_, _)
AtsLoop(acc, rows) ==
  IF rows = <<>> \/ acc.exc # None THEN acc
  ELSE AtsLoop(AtsRow(acc, Head(rows)), Tail(rows))

\* AtsMetricsOf with 0 in place of None for an empty favourite or underdog subset
AtsMetricsOf_ZeroFallback(acc) ==
  LET total_diff == FloatDivInt(FloatSum(acc.ats_diffs), Len(acc.ats_diffs))
      fav_diff == IF acc.fav_diffs # <<>>
                  THEN FloatDivInt(FloatSum(acc.fav_diffs), Len(acc.fav_diffs)) ELSE PyInt(0)
      dog_diff == IF acc.dog_diffs # <<>>
                  THEN FloatDivInt(FloatSum(acc.dog_diffs), Len(acc.dog_diffs)) ELSE PyInt(0)
      ats_decisions == acc.ats_wins + acc.ats_losses
      cri == IF ats_decisions > 0 THEN IntDivInt(acc.ats_wins, ats_decisions) ELSE PyInt(0)
  IN  IF IsRaised(total_diff) THEN total_diff
      ELSE [kind |-> "dict",
            TOTAL_DIFF |-> total_diff,
            FAV_DIFF |-> fav_diff,
            DOG_DIFF |-> dog_diff,
            CRI |-> cri,
            games_played |-> Len(acc.ats_diffs),
            fav_games |-> Len(acc.fav_diffs),
            dog_games |-> Len(acc.dog_diffs),
            ats_wins |-> acc.ats_wins,
            ats_losses |-> acc.ats_losses,
            ats_decisions |-> ats_decisions]

\* the statistics computed after the loop
AtsMetricsOf(acc) ==
  LET total_diff == FloatDivInt(FloatSum(acc.ats_diffs), Len(acc.ats_diffs))
      fav_diff == IF acc.fav_diffs # <<>>
                  THEN FloatDivInt(FloatSum(acc.fav_diffs), Len(acc.fav_diffs)) ELSE None
      dog_diff == IF acc.dog_diffs # <<>>
                  THEN FloatDivInt(FloatSum(acc.dog_diffs), Len(acc.dog_diffs)) ELSE None
      ats_decisions == acc.ats_wins + acc.ats_losses
      cri == IF ats_decisions > 0 THEN IntDivInt(acc.ats_wins, ats_decisions) ELSE PyInt(0)
  IN  IF IsRaised(total_diff) THEN total_diff
      ELSE [kind |-> "dict",
            TOTAL_DIFF |-> total_diff,
            FAV_DIFF |-> fav_diff,
            DOG_DIFF |-> dog_diff,
            CRI |-> cri,
            games_played |-> Len(acc.ats_diffs),
            fav_games |-> Len(acc.fav_diffs),
            dog_games |-> Len(acc.dog_diffs),
            ats_wins |-> acc.ats_wins,
            ats_losses |-> acc.ats_losses,
            ats_decisions |-> ats_decisions]

\* calculate_team_ats_metrics without the return for an empty ats_diffs list
calculate_team_ats_metrics_NoGuard(csv_file) ==
  IF csv_file = Absent THEN None
  ELSE LET acc == AtsLoop(AtsAcc0, csv_file.rows)
       IN  IF acc.exc # None THEN None
           ELSE AtsMetricsOf(acc)

calculate_team_ats_metrics(csv_file) ==
  IF csv_file = Absent THEN None
  ELSE LET acc == AtsLoop(AtsAcc0, csv_file.rows)
       IN  IF acc.exc # None THEN None
           ELSE IF acc.ats_diffs = <<>> THEN None
           ELSE AtsMetricsOf(acc)

(***************************************************************************)
(* calculate_metrics.py                                                    *)
(***************************************************************************)
TeamAcc0 ==
  [exc |-> None, ats_margins |-> <<>>, ats_wins |-> 0, ats_decisions |-> 0,
   total_margins |-> <<>>]

\* one iteration of the loop over the reader's rows; nothing inside the
\* loop catches an exception
TeamRow(acc, row) ==
  LET tcell == Lookup(row, "team_score")
      ocell == Lookup(row, "opp_score")
      team_score == IntOfCell(tcell)
      opp_score == IntOfCell(ocell)
      scell == Lookup(row, "spread")
      lcell == Lookup(row, "total")
      spread == FloatOfCell(scell)
      total == FloatOfCell(lcell)
      point_diff == team_score.n - opp_score.n
      ats_margin == FloatAdd(FloatOfInt(point_diff), spread)
      actual_total == team_score.n + opp_score.n
      total_margin == FloatSub(FloatOfInt(actual_total), total)
  IN  IF IsRaised(tcell) THEN [acc EXCEPT !.exc = tcell]
      ELSE IF ~Truthy(tcell) THEN acc
      ELSE IF IsRaised(ocell) THEN [acc EXCEPT !.exc = ocell]
      ELSE IF ~Truthy(ocell) THEN acc
      ELSE IF IsRaised(team_score) THEN [acc EXCEPT !.exc = team_score]
      ELSE IF IsRaised(opp_score) THEN [acc EXCEPT !.exc = opp_score]
      ELSE IF IsRaised(scell) THEN [acc EXCEPT !.exc = scell]
      ELSE IF ~Truthy(scell) THEN acc
      ELSE IF IsRaised(lcell) THEN [acc EXCEPT !.exc = lcell]
      ELSE IF ~Truthy(lcell) THEN acc
      ELSE IF IsRaised(spread) THEN [acc EXCEPT !.exc = spread]
      ELSE IF IsRaised(total) THEN [acc EXCEPT !.exc = total]
      ELSE [acc EXCEPT
              !.ats_margins = Append(@, ats_margin),
              !.ats_decisions = @ + 1,
              !.ats_wins = IF FloatGt(ats_margin, Float(0, 1)) THEN @ + 1 ELSE @,
              !.total_margins = Append(@, total_margin)]

RECURSIVE TeamLoop(_, _)
TeamLoop(acc, rows) ==
  IF rows = <<>> \/ acc.exc # None THEN acc
  ELSE TeamLoop(TeamRow(acc, Head(rows)), Tail(rows))

\* the statistics computed after the loop
TeamMetricsOf(acc) ==
  LET spi == FloatDivInt(FloatSum(acc.ats_margins), Len(acc.ats_margins))
      avi == FloatNeg(spi)
      cri == IF acc.ats_decisions > 0
             THEN IntDivInt(acc.ats_wins, acc.ats_decisions) ELSE PyInt(0)
      tpi == IF acc.total_margins # <<>>
             THEN FloatDivInt(FloatSum(acc.total_margins), Len(acc.total_margins))
             ELSE PyInt(0)
  IN  IF IsRaised(spi) THEN spi
      ELSE [kind |-> "dict",
            SPI |-> spi,
            AVI |-> avi,
            CRI |-> cri,
            TPI |-> tpi,
            games_played |-> Len(acc.ats_margins),
            ats_wins |-> acc.ats_wins,
            ats_decisions |-> acc.ats_decisions]

calculate_team_metrics(csv_file) ==
  IF csv_file = Absent THEN None
  ELSE LET acc == TeamLoop(TeamAcc0, csv_file.rows)
       IN  IF acc.exc # None THEN None
           ELSE IF acc.ats_margins = <<>> THEN None
           ELSE TeamMetricsOf(acc)

(***************************************************************************)
(* calculate_ats_metrics.py: the mapping over all teams and the rankings.  *)
(* A directory maps file names <<prefix, slug, suffix>> to csv files; a    *)
(* dict is the list of its (key, value) items in insertion order.          *)
(***************************************************************************)
FileName(prefix, slug) == <<prefix, slug, ".csv">>

\* data_path.glob("ats_results_*.csv"): the existing files of that shape
Glob(dir) ==
  {nm \in DOMAIN dir : dir[nm] # Absent /\ nm[1] = "ats_results_" /\ nm[3] = ".csv"}

\* csv_file.stem.replace("ats_results_", "")
SlugOf(nm) == IF nm[1] = "ats_results_" THEN nm[2] ELSE nm[1] \o nm[2]

DictKeys(d) == {d[i].key : i \in 1..Len(d)}

\* d[k] = v
DictSet(d, k, v) ==
  IF k \in DictKeys(d)
  THEN [i \in 1..Len(d) |-> IF d[i].key = k THEN [key |-> k, value |-> v] ELSE d[i]]
  ELSE Append(d, [key |-> k, value |-> v])

\* bool(metrics): None is false, a dict with keys is true
MetricsTruthy(m) == m.kind = "dict"

\* AllMetricsLoop without 'if metrics:': it stores whatever was returned
RECURSIVE AllMetricsLoop_KeepNone(_, _, _)
AllMetricsLoop_KeepNone(all, dir, ats_files) ==
  IF ats_files = <<>> THEN all
  ELSE LET csv == Head(ats_files)
           team_slug == SlugOf(csv)
           metrics == calculate_team_ats_metrics(dir[csv])
       IN  AllMetricsLoop_KeepNone(DictSet(all, team_slug, metrics), dir, Tail(ats_files))

\* the loop of get_all_team_metrics over the globbed files, in list order
RECURSIVE AllMetricsLoop(_, _, _)
AllMetricsLoop(all, dir, ats_files) ==
  IF ats_files = <<>> THEN all
  ELSE LET csv == Head(ats_files)
           team_slug == SlugOf(csv)
           metrics == calculate_team_ats_metrics(dir[csv])
       IN  AllMetricsLoop(IF MetricsTruthy(metrics) THEN DictSet(all, team_slug, metrics) ELSE all,
                          dir, Tail(ats_files))

\* ats_files is the list the glob produced, in the order the OS gave it
get_all_team_metrics(dir, ats_files) == AllMetricsLoop(<<>>, dir, ats_files)

\* the orders in which a glob may list the files of S
ListingsOf(S) ==
  {l \in [1..Cardinality(S) -> S] : \A i, j \in 1..Cardinality(S) : i # j => l[i] # l[j]}

\* InsertDesc putting x in front of the items with an equal key
RECURSIVE InsertDesc_Unstable(_, _, _)
InsertDesc_Unstable(sorted, x, field) ==
  IF sorted = <<>> THEN <<x>>
  ELSE IF ~FloatGt(Head(sorted).value[field], x.value[field])
  THEN <<x>> \o sorted
  ELSE <<Head(sorted)>> \o InsertDesc_Unstable(Tail(sorted), x, field)

\* insert x behind every item whose key is >= x's key (descending, stable)
RECURSIVE InsertDesc(_, _, _)
InsertDesc(sorted, x, field) ==
  IF sorted = <<>> THEN <<x>>
  ELSE IF FloatLt(Head(sorted).value[field], x.value[field])
  THEN <<x>> \o sorted
  ELSE <<Head(sorted)>> \o InsertDesc(Tail(sorted), x, field)

\* sorted(items, key=lambda x: x[1][field], reverse=True)
RECURSIVE SortedDesc(_, _)
SortedDesc(items, field) ==
  IF items = <<>> THEN <<>>
  ELSE InsertDesc(SortedDesc(SubSeq(items, 1, Len(items) - 1), field),
                  items[Len(items)], field)

(***************************************************************************)
(* The csv files a team's path may hold                                    *)
(***************************************************************************)
MaxAtsRows == 2

MaxTeamRows == 2

SeqsUpTo(S, n) == UNION {[1..k -> S] : k \in 0..n}

Empty == <<>>

AtsDiffCells ==
  {None, Str(Empty), Str(<<"7", ".", "0">>), Str(<<"-", "3", ".", "0">>),
   Str(<<"0", ".", "0">>), Str(<<"x">>)}

AtsSpreadCells ==
  {Str(Empty), Str(<<"-", "4", ".", "0">>), Str(<<"6", ".", "0">>), Str(<<"0", ".", "0">>)}

\* a record whose spread cell reads nan, which float() takes
AtsNanRow == [ats_diff |-> Str(<<"7", ".", "0">>), spread |-> Str(<<"n", "a", "n">>)]

AtsRows == [ats_diff : AtsDiffCells, spread : AtsSpreadCells] \cup {AtsNanRow}

AtsColumns == {"ats_diff", "spread"}

AtsFiles == {CsvFile(AtsColumns, rs) : rs \in SeqsUpTo(AtsRows, MaxAtsRows)}

TeamScoreCells == {Str(Empty), Str(<<"1", "1", "0">>), Str(<<"x">>)}

OppScoreCells == {Str(Empty), Str(<<"1", "0", "5">>)}

TeamSpreadCells == {Str(Empty), Str(<<"-", "5", ".", "0">>), Str(<<"3", ".", "5">>)}

TotalCells == {Str(Empty), Str(<<"2", "2", "0", ".", "5">>)}

TeamRows ==
  [team_score : TeamScoreCells, opp_score : OppScoreCells,
   spread : TeamSpreadCells, total : TotalCells]

TeamColumns == {"team_score", "opp_score", "spread", "total"}

TeamFiles == {CsvFile(TeamColumns, rs) : rs \in SeqsUpTo(TeamRows, MaxTeamRows)}

Unset == [kind |-> "unset"]

\* a dict held in a variable, as its items in insertion order
Mapping(its) == [kind |-> "mapping", items |-> its]

\* three teams of NBA_TEAMS
Teams == {"atlanta-hawks", "boston-celtics", "brooklyn-nets"}

MaxDirRows == 1

DirRows ==
  {[ats_diff |-> Str(Empty), spread |-> Str(<<"-", "4", ".", "0">>)],
   [ats_diff |-> Str(<<"7", ".", "0">>), spread |-> Str(<<"-", "4", ".", "0">>)],
   [ats_diff |-> Str(<<"-", "3", ".", "0">>), spread |-> Str(<<"6", ".", "0">>)],
   [ats_diff |-> Str(<<"x">>), spread |-> Str(<<"6", ".", "0">>)]}

DirAtsFiles == {CsvFile(AtsColumns, rs) : rs \in SeqsUpTo(DirRows, MaxDirRows)}

AtsNames == {FileName("ats_results_", t) : t \in Teams}

\* a file of the other scraper lying in the same directory
OtherName == FileName("teamrankings_", "atlanta-hawks")

OtherFiles ==
  {Absent,
   CsvFile(TeamColumns,
           <<[team_score |-> Str(<<"1", "1", "0">>), opp_score |-> Str(<<"1", "0", "5">>),
              spread |-> Str(<<"3", ".", "5">>), total |-> Str(<<"2", "2", "0", ".", "5">>)]>>)}

Directories ==
  {d \in [AtsNames \cup {OtherName} -> {Absent} \cup DirAtsFiles \cup OtherFiles] :
     /\ d[OtherName] \in OtherFiles
     /\ \A nm \in AtsNames : d[nm] \in {Absent} \cup DirAtsFiles}

MaxTables == 3

AtsHeader ==
  <<<<"D", "a", "t", "e">>,
    <<"H", "/", "A", "/", "N">>,
    <<"O", "p", "p", "o", "n", "e", "n", "t">>,
    <<"L", "A", "C", " ", "L", "i", "n", "e">>,
    <<"D", "i", "f", "f">>>>

BettingHeader ==
  <<<<"D", "a", "t", "e">>,
    <<"O", "p", "p", "o", "n", "e", "n", "t">>,
    <<"R", "e", "s", "u", "l", "t">>,
    <<"S", "p", "r", "e", "a", "d">>,
    <<"T", "o", "t", "a", "l">>>>

BothHeader ==
  <<<<NBSP, "D", "A", "T", "E", " ">>,
    <<"O", "p", "p", "o", "n", "e", "n", "t">>,
    <<"L", "i", "n", "e">>,
    <<"R", "e", "s", "u", "l", "t">>,
    <<"S", "p", "r", "e", "a", "d">>,
    <<"T", "o", "t", "a", "l">>,
    <<"D", "i", "f", "f">>>>

OtherHeader ==
  <<<<"T", "e", "a", "m">>,
    <<"R", "a", "n", "k">>>>

JoinedOnlyHeader ==
  <<<<"G", "a", "m", "e", " ", "D", "a", "t", "e">>,
    <<"O", "p", "p", "o", "n", "e", "n", "t">>,
    <<"R", "e", "s", "u", "l", "t">>,
    <<"S", "p", "r", "e", "a", "d">>,
    <<"T", "o", "t", "a", "l">>,
    <<"L", "i", "n", "e">>,
    <<"D", "i", "f", "f">>>>

SampleTables ==
  {Table(None),
   Table(Thead(<<>>)),
   Table(Thead(<<AtsHeader>>)),
   Table(Thead(<<BettingHeader>>)),
   Table(Thead(<<BothHeader>>)),
   Table(Thead(<<OtherHeader, BothHeader>>)),
   Table(Thead(<<JoinedOnlyHeader>>))}

Documents == SeqsUpTo(SampleTables, MaxTables)

(***************************************************************************)
(* The body rows a table may hold, and the pages a scraper may be served   *)
(***************************************************************************)
MaxBodyRows == 2

\* the header row of the ATS-performance table
AtsFullHeader ==
  <<<<"D", "a", "t", "e">>,
    <<"H", "/", "A", "/", "N">>,
    <<"O", "p", "p", "o", "n", "e", "n", "t">>,
    <<"O", "p", "p", " ", "R", "a", "n", "k">>,
    <<"L", "A", "C", " ", "L", "i", "n", "e">>,
    <<"R", "e", "s", "u", "l", "t">>,
    <<"D", "i", "f", "f">>>>

\* a played game
AtsGameRow ==
  <<<<"1", "1", "/", "2", "9">>,
    <<"H", "o", "m", "e">>,
    <<"B", "o", "s", "t", "o", "n">>,
    <<"3">>,
    <<"-", "6", ".", "0">>,
    <<"W", " ", "b", "y", " ", "1", "2">>,
    <<"+", "7", ".", "0">>>>

\* a game not yet played, at a neutral site
AtsOpenRow ==
  <<<<"1", "2", "/", "0", "1">>,
    <<"N", "e", "u", "t", "r", "a", "l">>,
    <<"M", "i", "a", "m", "i">>,
    <<"-">>,
    <<"P", "K">>,
    <<"T", "B", "D">>,
    <<"-">>>>

\* the header repeated inside the body
AtsDateRow ==
  <<<<NBSP, "d", "a", "t", "e", " ">>,
    <<"H", "/", "A", "/", "N">>,
    <<"O", "p", "p", "o", "n", "e", "n", "t">>,
    <<"O", "p", "p", " ", "R", "a", "n", "k">>,
    <<"L", "A", "C", " ", "L", "i", "n", "e">>,
    <<"R", "e", "s", "u", "l", "t">>,
    <<"D", "i", "f", "f">>>>

\* a row without a date
AtsEmptyRow ==
  <<<<>>,
    <<"A", "w", "a", "y">>,
    <<"D", "e", "n", "v", "e", "r">>,
    <<"5">>,
    <<"+", "3", ".", "5">>,
    <<"L", " ", "b", "y", " ", "5">>,
    <<"-", "8", ".", "5">>>>

\* a row with the placeholder dash for a date
AtsDashRow ==
  <<<<"-">>,
    <<"A", "w", "a", "y">>,
    <<"D", "e", "n", "v", "e", "r">>,
    <<"5">>,
    <<"+", "3", ".", "5">>,
    <<"L", " ", "b", "y", " ", "5">>,
    <<"-", "8", ".", "5">>>>

\* a row one cell short
AtsShortRow ==
  <<<<"1", "2", "/", "0", "5">>,
    <<"A", "w", "a", "y">>,
    <<"D", "e", "n", "v", "e", "r">>,
    <<"5">>,
    <<"+", "3", ".", "5">>,
    <<"L", " ", "b", "y", " ", "5">>>>

\* a footnote row of one cell
AtsNoteRow ==
  <<<<"N", "o", "t", "e", ":", " ", "O", "T">>>>

\* a row with a cell more than the columns
AtsLongRow ==
  <<<<"1", "2", "/", "0", "7">>,
    <<"a", "w", "a", "y">>,
    <<"U", "t", "a", "h">>,
    <<"x">>,
    <<"0", ".", "0">>,
    <<"L", " ", "b", "y", " ", "0">>,
    <<"0", ".", "0">>,
    <<"e", "x", "t", "r", "a">>>>

\* a row of full width with a footnote behind the opponent
AtsFootnoteRow ==
  <<<<"1", "2", "/", "0", "9">>,
    <<"H", "o", "m", "e">>,
    <<"U", "t", "a", "h", " ", "N", "o", "t", "e", ":", " ", "O", "T">>,
    <<"0">>,
    <<"0">>,
    <<"W", " ", "b", "y", " ", "0">>,
    <<"0">>>>

AtsSampleRows ==
  {AtsGameRow, AtsOpenRow, AtsDateRow, AtsEmptyRow, AtsDashRow, AtsShortRow,
   AtsNoteRow, AtsLongRow, AtsFootnoteRow}

\* the header row of the schedule/betting table
BettingFullHeader ==
  <<<<"D", "a", "t", "e">>,
    <<"O", "p", "p", "o", "n", "e", "n", "t">>,
    <<"R", "e", "s", "u", "l", "t">>,
    <<"L", "o", "c", "a", "t", "i", "o", "n">>,
    <<"W", "/", "L">>,
    <<"D", "i", "v">>,
    <<"S", "p", "r", "e", "a", "d">>,
    <<"T", "o", "t", "a", "l">>,
    <<"M", "o", "n", "e", "y">>>>

\* a played game
BettingGameRow ==
  <<<<"1", "1", "/", "2", "9">>,
    <<"B", "o", "s", "t", "o", "n">>,
    <<"W", " ", "1", "1", "6", "-", "1", "0", "5">>,
    <<"A", "w", "a", "y">>,
    <<"1", "-", "0">>,
    <<"0", "-", "0">>,
    <<"-", "6", ".", "0">>,
    <<"O", "v", " ", "2", "2", "9", ".", "5">>,
    <<"-", "2", "5", "0">>>>

\* a game not yet played, at a neutral site
BettingOpenRow ==
  <<<<"1", "2", "/", "0", "1">>,
    <<"M", "i", "a", "m", "i">>,
    <<>>,
    <<"N", "e", "u", "t", "r", "a", "l">>,
    <<>>,
    <<>>,
    <<"P", "K">>,
    <<"-">>,
    <<"N", "/", "A">>>>

\* the header repeated inside the body
BettingDateRow ==
  <<<<"D", "A", "T", "E">>,
    <<"O", "p", "p", "o", "n", "e", "n", "t">>,
    <<"R", "e", "s", "u", "l", "t">>,
    <<"L", "o", "c", "a", "t", "i", "o", "n">>,
    <<"W", "/", "L">>,
    <<"D", "i", "v">>,
    <<"S", "p", "r", "e", "a", "d">>,
    <<"T", "o", "t", "a", "l">>,
    <<"M", "o", "n", "e", "y">>>>

\* a row without a date
BettingEmptyRow ==
  <<<<NBSP>>,
    <<"D", "e", "n", "v", "e", "r">>,
    <<"L", " ", "9", "8", "-", "1", "0", "2">>,
    <<"H", "o", "m", "e">>,
    <<"0", "-", "1">>,
    <<"0", "-", "1">>,
    <<"+", "3", ".", "5">>,
    <<"U", "n", " ", "2", "1", "8", ".", "0">>,
    <<"+", "1", "5", "0">>>>

\* a row with the placeholder dash for a date
BettingDashRow ==
  <<<<"-">>,
    <<"D", "e", "n", "v", "e", "r">>,
    <<"L", " ", "9", "8", "-", "1", "0", "2">>,
    <<"H", "o", "m", "e">>,
    <<"0", "-", "1">>,
    <<"0", "-", "1">>,
    <<"+", "3", ".", "5">>,
    <<"U", "n", " ", "2", "1", "8", ".", "0">>,
    <<"+", "1", "5", "0">>>>

\* a footnote row of full width
BettingNoteRow ==
  <<<<"N", "o", "t", "e", ":", " ", "O", "T">>,
    <<>>,
    <<>>,
    <<>>,
    <<>>,
    <<>>,
    <<>>,
    <<>>,
    <<>>>>

\* a row one cell short
BettingShortRow ==
  <<<<"1", "2", "/", "0", "5">>,
    <<"D", "e", "n", "v", "e", "r">>,
    <<"L", " ", "9", "8", "-", "1", "0", "2">>,
    <<"H", "o", "m", "e">>,
    <<"0", "-", "1">>,
    <<"0", "-", "1">>,
    <<"+", "3", ".", "5">>,
    <<"U", "n", " ", "2", "1", "8", ".", "0">>>>

\* a row whose total is an indicator and a run of digits and dots
BettingBadTotalRow ==
  <<<<"1", "2", "/", "0", "7">>,
    <<"U", "t", "a", "h">>,
    <<"W", " ", "1", "0", "1", "-", "9", "9">>,
    <<"H", "o", "m", "e">>,
    <<"2", "-", "1">>,
    <<"1", "-", "1">>,
    <<"3", ".", "5", "+">>,
    <<"O", "v", " ", "1", ".", "2", ".", "3">>,
    <<"-", "1", "1", "0">>>>

\* a row of full width with a footnote behind the result
BettingFootnoteRow ==
  <<<<"1", "2", "/", "0", "9">>,
    <<"U", "t", "a", "h">>,
    <<"W", " ", "9", "-", "0", " ", "n", "o", "t", "e", ":", " ", "O", "T">>,
    <<"N", "/", "A">>,
    <<"3", "-", "1">>,
    <<"1", "-", "1">>,
    <<"0">>,
    <<"0">>,
    <<"0">>>>

\* a scoreless game with a sign behind the spread and a word before the total
BettingPlusRow ==
  <<<<"1", "2", "/", "1", "1">>,
    <<"U", "t", "a", "h">>,
    <<"W", " ", "0", "-", "0">>,
    <<"A", "w", "a", "y">>,
    <<"4", "-", "1">>,
    <<"1", "-", "1">>,
    <<"0", "+">>,
    <<"G", "o", " ", "0">>,
    <<"0">>>>

BettingSampleRows ==
  {BettingGameRow, BettingOpenRow, BettingDateRow, BettingEmptyRow, BettingDashRow,
   BettingNoteRow, BettingShortRow, BettingBadTotalRow, BettingFootnoteRow,
   BettingPlusRow}

AtsBodyTables ==
  {BodyTable(Thead(<<AtsFullHeader>>), None)}
  \cup {BodyTable(Thead(<<AtsFullHeader>>), Tbody(rs)) :
          rs \in SeqsUpTo(AtsSampleRows, MaxBodyRows)}

BettingBodyTables ==
  {BodyTable(Thead(<<BettingFullHeader>>), None)}
  \cup {BodyTable(Thead(<<BettingFullHeader>>), Tbody(rs)) :
          rs \in SeqsUpTo(BettingSampleRows, MaxBodyRows)}

SampleBodyTables == AtsBodyTables \cup BettingBodyTables

\* a table of the page that neither locator takes
OtherTable == BodyTable(Thead(<<OtherHeader>>), Tbody(<<>>))

Responses ==
  {RequestException, Response(404, <<>>), Response(200, <<>>),
   Response(200, <<OtherTable>>)}
  \cup {Response(200, <<OtherTable, t>>) : t \in SampleBodyTables}

\* a file an earlier run left at the output path
OldAtsFile ==
  write_to_csv(parse_ats_table(BodyTable(None, Tbody(<<AtsOpenRow>>)), "atlanta-hawks"),
               ats_fieldnames)

\* the teams the driver is run over: the first NumBatchTeams of NBA_TEAMS
NumBatchTeams == 3

BatchTeams == SubSeq(NBA_TEAMS, 1, NumBatchTeams)

\* what the site may serve for one team's ATS page
BatchResponses ==
  {RequestException,
   Response(200, <<OtherTable>>),
   Response(200, <<BodyTable(Thead(<<AtsFullHeader>>), Tbody(<<AtsDateRow>>))>>),
   Response(200, <<OtherTable, BodyTable(Thead(<<AtsFullHeader>>), Tbody(<<AtsGameRow>>))>>)}

VARIABLES csv_file, ats_metrics, team_metrics,
          data_dir, all_metrics, by_total_diff, by_cri,
          soup, ats_table, betting_table,
          text, parsed,
          body_table, games,
          response, output_file, scraper_exit,
          scraper_exists, web, files, pc, team_index, success_count,
          failed_teams, launched, returncodes, driver_exit,
          page_games, seen, computed

metricVars == <<csv_file, ats_metrics, team_metrics>>

rankVars == <<data_dir, all_metrics, by_total_diff, by_cri>>

locatorVars == <<soup, ats_table, betting_table>>

normVars == <<text, parsed>>

parserVars == <<body_table, games>>

scraperVars == <<response, output_file, scraper_exit>>

batchVars ==
  <<scraper_exists, web, files, pc, team_index, success_count, failed_teams,
    launched, returncodes, driver_exit>>

pageVars == <<page_games, seen, computed>>

scrapeVars == <<parserVars, scraperVars, batchVars, pageVars>>

vars ==
  <<csv_file, ats_metrics, team_metrics, data_dir, all_metrics, by_total_diff, by_cri,
    soup, ats_table, betting_table, text, parsed,
    body_table, games, response, output_file, scraper_exit,
    scraper_exists, web, files, pc, team_index, success_count, failed_teams,
    launched, returncodes, driver_exit, page_games, seen, computed>>

\* no table parser, scraper or batch driver is part of the run
NoScrape ==
  /\ body_table = Unset
  /\ games = Unset
  /\ response = Unset
  /\ output_file = Unset
  /\ scraper_exit = Unset
  /\ scraper_exists = Unset
  /\ web = Unset
  /\ files = Unset
  /\ pc = Unset
  /\ team_index = Unset
  /\ success_count = Unset
  /\ failed_teams = Unset
  /\ launched = Unset
  /\ returncodes = Unset
  /\ driver_exit = Unset
  /\ page_games = Unset
  /\ seen = Unset
  /\ computed = Unset

\* no metric computation, ranking, locator or normalizer is part of the run
NoCompute ==
  /\ csv_file = Unset
  /\ ats_metrics = Unset
  /\ team_metrics = Unset
  /\ data_dir = Unset
  /\ all_metrics = Unset
  /\ by_total_diff = Unset
  /\ by_cri = Unset
  /\ soup = Unset
  /\ ats_table = Unset
  /\ betting_table = Unset
  /\ text = Unset
  /\ parsed = Unset

(***************************************************************************)
(* One team's csv path and the two metric computations over it             *)
(***************************************************************************)
Init ==
  /\ csv_file \in {Absent} \cup AtsFiles \cup TeamFiles
  /\ ats_metrics = Unset
  /\ team_metrics = Unset
  /\ data_dir = Unset
  /\ all_metrics = Unset
  /\ by_total_diff = Unset
  /\ by_cri = Unset
  /\ soup = Unset
  /\ ats_table = Unset
  /\ betting_table = Unset
  /\ text = Unset
  /\ parsed = Unset
  /\ NoScrape

CalculateTeamAtsMetrics ==
  /\ ats_metrics' = calculate_team_ats_metrics(csv_file)
  /\ UNCHANGED <<csv_file, team_metrics>>
  /\ UNCHANGED rankVars
  /\ UNCHANGED normVars
  /\ UNCHANGED scrapeVars
  /\ UNCHANGED locatorVars

CalculateTeamMetrics ==
  /\ team_metrics' = calculate_team_metrics(csv_file)
  /\ UNCHANGED <<csv_file, ats_metrics>>
  /\ UNCHANGED rankVars
  /\ UNCHANGED normVars
  /\ UNCHANGED scrapeVars
  /\ UNCHANGED locatorVars

Next == CalculateTeamAtsMetrics \/ CalculateTeamMetrics

Spec == Init /\ [][Next]_vars

(***************************************************************************)
(* calculate_ats_metrics.main over a directory of team files               *)
(***************************************************************************)
RankInit ==
  /\ data_dir \in Directories
  /\ all_metrics = Unset
  /\ by_total_diff = Unset
  /\ by_cri = Unset
  /\ csv_file = Unset
  /\ ats_metrics = Unset
  /\ team_metrics = Unset
  /\ soup = Unset
  /\ ats_table = Unset
  /\ betting_table = Unset
  /\ text = Unset
  /\ parsed = Unset
  /\ NoScrape

\* all_metrics = get_all_team_metrics()
GetAllTeamMetrics ==
  /\ all_metrics = Unset
  /\ \E ats_files \in ListingsOf(Glob(data_dir)) :
       all_metrics' = Mapping(get_all_team_metrics(data_dir, ats_files))
  /\ UNCHANGED <<data_dir, by_total_diff, by_cri>>
  /\ UNCHANGED metricVars
  /\ UNCHANGED locatorVars
  /\ UNCHANGED normVars
  /\ UNCHANGED scrapeVars

\* display_team_rankings(all_metrics): an empty mapping builds no ranking
DisplayTeamRankings ==
  /\ all_metrics # Unset
  /\ by_total_diff = Unset
  /\ all_metrics.items # <<>>
  /\ by_total_diff' = List(SortedDesc(all_metrics.items, "TOTAL_DIFF"))
  /\ by_cri' = List(SortedDesc(all_metrics.items, "CRI"))
  /\ UNCHANGED <<data_dir, all_metrics>>
  /\ UNCHANGED metricVars
  /\ UNCHANGED locatorVars
  /\ UNCHANGED normVars
  /\ UNCHANGED scrapeVars

RankNext == GetAllTeamMetrics \/ DisplayTeamRankings

RankSpec == RankInit /\ [][RankNext]_vars

(***************************************************************************)
(* The two locators applied to a parsed page                               *)
(***************************************************************************)
LocatorInit ==
  /\ soup \in {Mapping(d) : d \in Documents}
  /\ ats_table = Unset
  /\ betting_table = Unset
  /\ csv_file = Unset
  /\ ats_metrics = Unset
  /\ team_metrics = Unset
  /\ data_dir = Unset
  /\ all_metrics = Unset
  /\ by_total_diff = Unset
  /\ by_cri = Unset
  /\ text = Unset
  /\ parsed = Unset
  /\ NoScrape

FindAtsTable ==
  /\ ats_table' = find_ats_table(soup.items)
  /\ UNCHANGED <<soup, betting_table>>
  /\ UNCHANGED metricVars
  /\ UNCHANGED rankVars
  /\ UNCHANGED normVars
  /\ UNCHANGED scrapeVars

FindBettingTable ==
  /\ betting_table' = find_betting_table(soup.items)
  /\ UNCHANGED <<soup, ats_table>>
  /\ UNCHANGED metricVars
  /\ UNCHANGED rankVars
  /\ UNCHANGED normVars
  /\ UNCHANGED scrapeVars

LocatorNext == FindAtsTable \/ FindBettingTable

LocatorSpec == LocatorInit /\ [][LocatorNext]_vars

(***************************************************************************)
(* The normalizers applied to one cell text                                *)
(***************************************************************************)
MaxTextLen == 4

TextAlphabet == {"O", "v", " ", "1", ".", "-", "+"}

SampleTexts ==
  {<<>>,
   <<"-">>,
   <<"N", "/", "A">>,
   <<"n", "/", "a">>,
   <<"P", "K">>,
   <<"p", "k">>,
   <<"-", "6", ".", "0">>,
   <<"+", "3", ".", "5">>,
   <<"3", ".", "5", "+">>,
   <<"0">>,
   <<"a", "b", "c">>,
   <<"O", "v", " ", "2", "2", "9", ".", "5">>,
   <<"U", "n", " ", "2", "1", "8", ".", "0">>,
   <<"o", " ", "5">>,
   <<"O", "v", " ", "1", ".", "2", ".", "3">>,
   <<"U", "n", " ", ".">>,
   <<"g", "a", "r", "b", "a", "g", "e">>,
   <<"2", "2", "9", ".", "5">>,
   <<"G", "o", " ", "7">>,
   <<"W", " ", "b", "y", " ", "1", "2">>,
   <<"L", " ", "b", "y", " ", "5">>,
   <<"w", " ", "b", "y", " ", "1", "2">>,
   <<"W", " ", "b", "y", " ", "3", " ", "O", "T">>,
   <<"L", " ", " ", "b", "y", "\t", "0", "7">>,
   <<"T", "B", "D">>,
   <<"W", " ", "1", "1", "6", "-", "1", "0", "5">>,
   <<"L", " ", "9", "8", " ", "-", " ", "1", "0", "2">>,
   <<"+", "1", "5", "0">>,
   <<"-", "1", "1", "0">>,
   <<"B", "o", "s">>,
   <<"@", "B", "o", "s">>,
   <<" ", "@", " ", "B", "o", "s", " ">>,
   <<"a", "t", " ", "B", "o", "s">>,
   <<"A", "T", " ", " ", "B", "o", "s">>,
   <<"a", "t", "\t", "B", "o", "s">>,
   <<"a", "t", NBSP, "B", "o", "s">>,
   <<"A", "t", "l">>,
   <<"@", "@", "B", "o", "s">>,
   <<"@", " ", "a", "t", " ", "B", "o", "s">>,
   <<"a", "t", " ", "@", "B", "o", "s">>,
   <<"a", "t", " ", "a", "t", " ", "B", "o", "s">>,
   <<"@">>,
   <<"a", "t", " ">>}

Texts == SampleTexts \cup SeqsUpTo(TextAlphabet, MaxTextLen)

NormInit ==
  /\ text \in {Str(t) : t \in Texts}
  /\ parsed = Unset
  /\ soup = Unset
  /\ ats_table = Unset
  /\ betting_table = Unset
  /\ csv_file = Unset
  /\ ats_metrics = Unset
  /\ team_metrics = Unset
  /\ data_dir = Unset
  /\ all_metrics = Unset
  /\ by_total_diff = Unset
  /\ by_cri = Unset
  /\ NoScrape

Others == <<soup, ats_table, betting_table, csv_file, ats_metrics, team_metrics,
            data_dir, all_metrics, by_total_diff, by_cri, scrapeVars>>

Parsed(fn, v) == [kind |-> "parsed", by |-> fn, value |-> v]

AtsParseSpread ==
  /\ parsed' = Parsed("ats.parse_spread", ats_parse_spread(text.s))
  /\ UNCHANGED <<text, Others>>

BettingParseSpread ==
  /\ parsed' = Parsed("betting.parse_spread", betting_parse_spread(text.s))
  /\ UNCHANGED <<text, Others>>

ParseDiff ==
  /\ parsed' = Parsed("parse_diff", parse_diff(text.s))
  /\ UNCHANGED <<text, Others>>

ParseTotal ==
  /\ parsed' = Parsed("parse_total", parse_total(text.s))
  /\ UNCHANGED <<text, Others>>

ParseIntOrNone ==
  /\ parsed' = Parsed("parse_int_or_none", parse_int_or_none(text.s))
  /\ UNCHANGED <<text, Others>>

ParseResult ==
  /\ parsed' = Parsed("parse_result", parse_result(text.s))
  /\ UNCHANGED <<text, Others>>

\* parse_betting_table hands parse_scores the cleaned cell text
ParseScores ==
  /\ parsed' = Parsed("parse_scores", parse_scores(clean_text(text.s)))
  /\ UNCHANGED <<text, Others>>

InferHomeAway ==
  /\ parsed' = Parsed("infer_home_away", infer_home_away(text.s))
  /\ UNCHANGED <<text, Others>>

ExtractOpponentName ==
  /\ parsed' = Parsed("extract_opponent_name", extract_opponent_name(text.s))
  /\ UNCHANGED <<text, Others>>

NormNext ==
  \/ AtsParseSpread
  \/ BettingParseSpread
  \/ ParseDiff
  \/ ParseTotal
  \/ ParseIntOrNone
  \/ ParseResult
  \/ ParseScores
  \/ InferHomeAway
  \/ ExtractOpponentName

NormSpec == NormInit /\ [][NormNext]_vars

(***************************************************************************)
(* The table parsers applied to one table                                  *)
(***************************************************************************)
ParserInit ==
  /\ body_table \in SampleBodyTables
  /\ games = Unset
  /\ response = Unset
  /\ output_file = Unset
  /\ scraper_exit = Unset
  /\ scraper_exists = Unset
  /\ web = Unset
  /\ files = Unset
  /\ pc = Unset
  /\ team_index = Unset
  /\ success_count = Unset
  /\ failed_teams = Unset
  /\ launched = Unset
  /\ returncodes = Unset
  /\ driver_exit = Unset
  /\ page_games = Unset
  /\ seen = Unset
  /\ computed = Unset
  /\ NoCompute

\* games = parse_ats_table(table, team_slug)
ParseAtsTable ==
  /\ games = Unset
  /\ games' = Parsed("parse_ats_table", parse_ats_table(body_table, "atlanta-hawks"))
  /\ UNCHANGED <<body_table, scraperVars, batchVars, pageVars>>
  /\ UNCHANGED <<metricVars, rankVars, locatorVars, normVars>>

\* games = parse_betting_table(table)
ParseBettingTable ==
  /\ games = Unset
  /\ games' = Parsed("parse_betting_table", parse_betting_table(body_table))
  /\ UNCHANGED <<body_table, scraperVars, batchVars, pageVars>>
  /\ UNCHANGED <<metricVars, rankVars, locatorVars, normVars>>

ParserNext == ParseAtsTable \/ ParseBettingTable

ParserSpec == ParserInit /\ [][ParserNext]_vars

(***************************************************************************)
(* One run of a single-team scraper against what the site serves, with a   *)
(* file of an earlier run possibly at the output path                      *)
(***************************************************************************)
Ran(script, code) == [kind |-> "ran", by |-> script, status |-> code]

ScraperInit ==
  /\ response \in Responses
  /\ output_file \in {Absent, OldAtsFile}
  /\ scraper_exit = Unset
  /\ body_table = Unset
  /\ games = Unset
  /\ scraper_exists = Unset
  /\ web = Unset
  /\ files = Unset
  /\ pc = Unset
  /\ team_index = Unset
  /\ success_count = Unset
  /\ failed_teams = Unset
  /\ launched = Unset
  /\ returncodes = Unset
  /\ driver_exit = Unset
  /\ page_games = Unset
  /\ seen = Unset
  /\ computed = Unset
  /\ NoCompute

\* python scrape_ats_results.py --team-slug ... --output ...
AtsMain ==
  /\ scraper_exit = Unset
  /\ \E writable \in BOOLEAN :
       LET r == ats_main(response, "atlanta-hawks", output_file, writable)
       IN  /\ scraper_exit' = Ran("scrape_ats_results", r.status)
           /\ output_file' = r.output
  /\ UNCHANGED <<response, parserVars, batchVars, pageVars>>
  /\ UNCHANGED <<metricVars, rankVars, locatorVars, normVars>>

\* python scrape_teamrankings_nba.py --team-slug ... --output ...
BettingMain ==
  /\ scraper_exit = Unset
  /\ \E writable \in BOOLEAN :
       LET r == betting_main(response, "atlanta-hawks", output_file, writable)
       IN  /\ scraper_exit' = Ran("scrape_teamrankings_nba", r.status)
           /\ output_file' = r.output
  /\ UNCHANGED <<response, parserVars, batchVars, pageVars>>
  /\ UNCHANGED <<metricVars, rankVars, locatorVars, normVars>>

ScraperNext == AtsMain \/ BettingMain

ScraperSpec == ScraperInit /\ [][ScraperNext]_vars

(***************************************************************************)
(* scrape_all_ats.main: the driver runs the ATS scraper once per team, as  *)
(* a child process it waits for.  web is what the site serves per team,    *)
(* files the csv at each team's output path, launched the teams a child    *)
(* was started for.                                                        *)
(***************************************************************************)
BatchInit ==
  /\ scraper_exists \in BOOLEAN
  /\ web \in [{BatchTeams[k] : k \in 1..Len(BatchTeams)} -> BatchResponses]
  /\ \E f \in {Absent, OldAtsFile} :
       files = [t \in {BatchTeams[k] : k \in 1..Len(BatchTeams)} |-> f]
  /\ pc = "start"
  /\ team_index = 1
  /\ success_count = 0
  /\ failed_teams = <<>>
  /\ launched = <<>>
  /\ returncodes = <<>>
  /\ driver_exit = Unset
  /\ page_games = Unset
  /\ seen = Unset
  /\ computed = Unset
  /\ body_table = Unset
  /\ games = Unset
  /\ response = Unset
  /\ output_file = Unset
  /\ scraper_exit = Unset
  /\ NoCompute

\* if not scraper_path.exists(): sys.exit(1)
ScraperNotFound ==
  /\ pc = "start"
  /\ ~scraper_exists
  /\ pc' = "done"
  /\ driver_exit' = Ran("scrape_all_ats", 1)
  /\ UNCHANGED <<scraper_exists, web, files, team_index, success_count,
                 failed_teams, launched, returncodes>>
  /\ UNCHANGED <<parserVars, scraperVars, pageVars>>
  /\ UNCHANGED <<metricVars, rankVars, locatorVars, normVars>>

\* success_count = 0; failed_teams = []; the loop is entered
Start ==
  /\ pc = "start"
  /\ scraper_exists
  /\ pc' = "loop"
  /\ success_count' = 0
  /\ failed_teams' = <<>>
  /\ team_index' = 1
  /\ UNCHANGED <<scraper_exists, web, files, launched, returncodes, driver_exit>>
  /\ UNCHANGED <<parserVars, scraperVars, pageVars>>
  /\ UNCHANGED <<metricVars, rankVars, locatorVars, normVars>>

\* one iteration of a loop that gives up at the first failed team
ScrapeTeam_AbortOnFailure ==
  /\ pc = "loop"
  /\ team_index <= Len(BatchTeams)
  /\ LET team_slug == BatchTeams[team_index]
     IN  \E writable \in BOOLEAN :
           LET r == ats_main(web[team_slug], team_slug, files[team_slug], writable)
           IN  /\ launched' = Append(launched, team_slug)
               /\ returncodes' = Append(returncodes, r.status)
               /\ files' = [files EXCEPT ![team_slug] = r.output]
               /\ IF r.status = 0
                  THEN /\ success_count' = success_count + 1
                       /\ team_index' = team_index + 1
                       /\ UNCHANGED failed_teams
                  ELSE /\ failed_teams' = Append(failed_teams, team_slug)
                       /\ team_index' = Len(BatchTeams) + 1
                       /\ UNCHANGED success_count
  /\ UNCHANGED <<scraper_exists, web, pc, driver_exit>>
  /\ UNCHANGED <<parserVars, scraperVars, pageVars>>
  /\ UNCHANGED <<metricVars, rankVars, locatorVars, normVars>>

\* one iteration of the loop: subprocess.run(cmd, check=True, ...) raises
\* CalledProcessError when the child's exit status is not 0
ScrapeTeam ==
  /\ pc = "loop"
  /\ team_index <= Len(BatchTeams)
  /\ LET team_slug == BatchTeams[team_index]
     IN  \E writable \in BOOLEAN :
           LET r == ats_main(web[team_slug], team_slug, files[team_slug], writable)
           IN  /\ launched' = Append(launched, team_slug)
               /\ returncodes' = Append(returncodes, r.status)
               /\ files' = [files EXCEPT ![team_slug] = r.output]
               /\ IF r.status = 0
                  THEN /\ success_count' = success_count + 1
                       /\ UNCHANGED failed_teams
                  ELSE /\ failed_teams' = Append(failed_teams, team_slug)
                       /\ UNCHANGED success_count
  /\ team_index' = team_index + 1
  /\ UNCHANGED <<scraper_exists, web, pc, driver_exit>>
  /\ UNCHANGED <<parserVars, scraperVars, pageVars>>
  /\ UNCHANGED <<metricVars, rankVars, locatorVars, normVars>>

\* Report with exit status 0 whatever failed
Report_ExitZero ==
  /\ pc = "loop"
  /\ team_index > Len(BatchTeams)
  /\ pc' = "done"
  /\ driver_exit' = Ran("scrape_all_ats", 0)
  /\ UNCHANGED <<scraper_exists, web, files, team_index, success_count,
                 failed_teams, launched, returncodes>>
  /\ UNCHANGED <<parserVars, scraperVars, pageVars>>
  /\ UNCHANGED <<metricVars, rankVars, locatorVars, normVars>>

\* after the loop: the summary, and sys.exit(1) if a team failed
Report ==
  /\ pc = "loop"
  /\ team_index > Len(BatchTeams)
  /\ pc' = "done"
  /\ driver_exit' = Ran("scrape_all_ats", IF failed_teams # <<>> THEN 1 ELSE 0)
  /\ UNCHANGED <<scraper_exists, web, files, team_index, success_count,
                 failed_teams, launched, returncodes>>
  /\ UNCHANGED <<parserVars, scraperVars, pageVars>>
  /\ UNCHANGED <<metricVars, rankVars, locatorVars, normVars>>

BatchNext == ScraperNotFound \/ Start \/ ScrapeTeam \/ Report

BatchSpec == BatchInit /\ [][BatchNext]_vars

\* ScrapeTeam as it shows on team_index: the loop moves on to the next team
NextTeam ==
  /\ pc = "loop"
  /\ team_index <= Len(BatchTeams)
  /\ team_index' = team_index + 1

\* the driver is a sequential program that runs on, and every child ends
\* (its only blocking call is requests.get with timeout=15), so
\* subprocess.run returns and the loop moves on
BatchFairSpec ==
  /\ BatchSpec
  /\ WF_vars(ScraperNotFound)
  /\ WF_vars(Start)
  /\ WF_team_index(NextTeam)
  /\ WF_vars(Report)

(***************************************************************************)
(* generate_nbabetinfo_page.py: load_metrics_for_games over the day's      *)
(* games.  page_games holds the GameInfo list, seen the dict of the        *)
(* metrics by slug, computed the slugs whose csv was refreshed and         *)
(* computed, launched and returncodes the children ensure_team_csv ran,    *)
(* team_index the position in the two loops (game.home, then game.away).   *)
(***************************************************************************)
TeamInfo(slug, metrics) == [slug |-> slug, metrics |-> metrics]

GameInfo(home, away) == [home |-> home, away |-> away]

MaxPageGames == 2

\* the teams that play
PageTeams == {"atlanta-hawks", "boston-celtics"}

\* TEAM_NAME_TO_SLUG.get(label): a slug, or None for an unknown label
PageSlugs == {None} \cup {Str(t) : t \in PageTeams}

PageGames ==
  SeqsUpTo({GameInfo(TeamInfo(h, None), TeamInfo(a, None)) : h, a \in PageSlugs},
           MaxPageGames)

\* a played pick'em game: no number in the line cell
AtsPickemRow ==
  <<<<"1", "2", "/", "0", "3">>,
    <<"A", "w", "a", "y">>,
    <<"M", "i", "a", "m", "i">>,
    <<"7">>,
    <<"P", "K">>,
    <<"W", " ", "b", "y", " ", "7">>,
    <<"+", "7", ".", "0">>>>

\* the csv an earlier run wrote for a played game
OldGameFile ==
  write_to_csv(parse_ats_table(BodyTable(None, Tbody(<<AtsGameRow>>)), "atlanta-hawks"),
               ats_fieldnames)

\* the csv an earlier run wrote for a played pick'em game
OldPickemFile ==
  write_to_csv(parse_ats_table(BodyTable(None, Tbody(<<AtsPickemRow>>)), "atlanta-hawks"),
               ats_fieldnames)

PageFiles == {Absent, OldAtsFile, OldGameFile, OldPickemFile}

\* what the site may serve for one team's ATS page
PageResponses ==
  {RequestException,
   Response(200, <<BodyTable(Thead(<<AtsFullHeader>>),
                             Tbody(<<AtsGameRow, AtsOpenRow>>))>>)}

\* d[k]
DictGet(d, k) == (CHOOSE it \in {d[i] : i \in 1..Len(d)} : it.key = k).value

\* the team the two loops reach at position k
TeamAt(gs, k) ==
  IF k % 2 = 1 THEN gs[(k + 1) \div 2].home ELSE gs[k \div 2].away

\* team.metrics = m for the team at position k
SetMetrics(gs, k, m) ==
  IF k % 2 = 1
  THEN [gs EXCEPT ![(k + 1) \div 2].home.metrics = m]
  ELSE [gs EXCEPT ![k \div 2].away.metrics = m]

PageInit ==
  /\ page_games \in PageGames
  /\ seen = <<>>
  /\ computed = <<>>
  /\ scraper_exists \in BOOLEAN
  /\ web \in [PageTeams -> PageResponses]
  /\ \E f \in PageFiles : files = [t \in PageTeams |-> f]
  /\ pc = "loop"
  /\ team_index = 1
  /\ launched = <<>>
  /\ returncodes = <<>>
  /\ success_count = Unset
  /\ failed_teams = Unset
  /\ driver_exit = Unset
  /\ body_table = Unset
  /\ games = Unset
  /\ response = Unset
  /\ output_file = Unset
  /\ scraper_exit = Unset
  /\ NoCompute

\* the loops stand at a team
AtTeam == pc = "loop" /\ team_index <= 2 * Len(page_games)

\* if not team.slug: continue
SkipTeam ==
  /\ AtTeam
  /\ TeamAt(page_games, team_index).slug = None
  /\ team_index' = team_index + 1
  /\ UNCHANGED <<scraper_exists, web, files, pc, success_count, failed_teams,
                 launched, returncodes, driver_exit, pageVars>>
  /\ UNCHANGED <<parserVars, scraperVars>>
  /\ UNCHANGED <<metricVars, rankVars, locatorVars, normVars>>

\* ReuseSeen for a loop that refreshes and computes a team it has seen
ReuseSeen_ComputesAgain ==
  /\ AtTeam
  /\ TeamAt(page_games, team_index).slug # None
  /\ TeamAt(page_games, team_index).slug.s \in DictKeys(seen)
  /\ page_games' = SetMetrics(page_games, team_index,
                              DictGet(seen, TeamAt(page_games, team_index).slug.s))
  /\ computed' = Append(computed, TeamAt(page_games, team_index).slug.s)
  /\ team_index' = team_index + 1
  /\ UNCHANGED <<scraper_exists, web, files, pc, success_count, failed_teams,
                 launched, returncodes, driver_exit, seen>>
  /\ UNCHANGED <<parserVars, scraperVars>>
  /\ UNCHANGED <<metricVars, rankVars, locatorVars, normVars>>

\* if team.slug in seen: team.metrics = seen[team.slug]; continue
ReuseSeen ==
  /\ AtTeam
  /\ TeamAt(page_games, team_index).slug # None
  /\ TeamAt(page_games, team_index).slug.s \in DictKeys(seen)
  /\ page_games' = SetMetrics(page_games, team_index,
                              DictGet(seen, TeamAt(page_games, team_index).slug.s))
  /\ team_index' = team_index + 1
  /\ UNCHANGED <<scraper_exists, web, files, pc, success_count, failed_teams,
                 launched, returncodes, driver_exit, seen, computed>>
  /\ UNCHANGED <<parserVars, scraperVars>>
  /\ UNCHANGED <<metricVars, rankVars, locatorVars, normVars>>

\* team.metrics = metrics; seen[team.slug] = metrics
StoreMetrics(slug, metrics) ==
  /\ page_games' = SetMetrics(page_games, team_index, metrics)
  /\ seen' = DictSet(seen, slug, metrics)
  /\ computed' = Append(computed, slug)

\* ensure_team_csv once the child r has ended (a CalledProcessError is
\* caught), then calculate_team_ats_metrics of the csv at the path
AfterChild(slug, r) ==
  /\ launched' = Append(launched, slug)
  /\ returncodes' = Append(returncodes, r.status)
  /\ files' = [files EXCEPT ![slug] = r.output]
  /\ StoreMetrics(slug, calculate_team_ats_metrics(r.output))

\* a team not yet seen, the scraper script being there
RefreshTeam ==
  /\ AtTeam
  /\ TeamAt(page_games, team_index).slug # None
  /\ TeamAt(page_games, team_index).slug.s \notin DictKeys(seen)
  /\ scraper_exists
  /\ \E writable \in BOOLEAN :
       AfterChild(TeamAt(page_games, team_index).slug.s,
                  ats_main(web[TeamAt(page_games, team_index).slug.s],
                           TeamAt(page_games, team_index).slug.s,
                           files[TeamAt(page_games, team_index).slug.s], writable))
  /\ team_index' = team_index + 1
  /\ UNCHANGED <<scraper_exists, web, pc, success_count, failed_teams, driver_exit>>
  /\ UNCHANGED <<parserVars, scraperVars>>
  /\ UNCHANGED <<metricVars, rankVars, locatorVars, normVars>>

\* a team not yet seen, the scraper script missing: ensure_team_csv warns
\* and returns the path
ComputeUnrefreshed ==
  /\ AtTeam
  /\ TeamAt(page_games, team_index).slug # None
  /\ TeamAt(page_games, team_index).slug.s \notin DictKeys(seen)
  /\ ~scraper_exists
  /\ StoreMetrics(TeamAt(page_games, team_index).slug.s,
                  calculate_team_ats_metrics(files[TeamAt(page_games, team_index).slug.s]))
  /\ team_index' = team_index + 1
  /\ UNCHANGED <<scraper_exists, web, files, pc, success_count, failed_teams,
                 launched, returncodes, driver_exit>>
  /\ UNCHANGED <<parserVars, scraperVars>>
  /\ UNCHANGED <<metricVars, rankVars, locatorVars, normVars>>

\* the loops are through
PageDone ==
  /\ pc = "loop"
  /\ team_index > 2 * Len(page_games)
  /\ pc' = "done"
  /\ UNCHANGED <<scraper_exists, web, files, team_index, success_count,
                 failed_teams, launched, returncodes, driver_exit, pageVars>>
  /\ UNCHANGED <<parserVars, scraperVars>>
  /\ UNCHANGED <<metricVars, rankVars, locatorVars, normVars>>

PageNext == SkipTeam \/ ReuseSeen \/ RefreshTeam \/ ComputeUnrefreshed \/ PageDone

PageSpec == PageInit /\ [][PageNext]_vars

(***************************************************************************)
(* Reference notions used to state the properties: which records of the    *)
(* file qualify for a statistic, and the mean of a value over them.        *)
(***************************************************************************)
\* the cell is present and parses as a number
IsNumericCell(c) == c.kind = "str" /\ ~IsRaised(float(c.s))

IsIntCell(c) == c.kind = "str" /\ ~IsRaised(int(c.s))

RECURSIVE SumOver(_, _)
SumOver(S, val) ==
  IF S = {} THEN Float(0, 1)
  ELSE LET i == CHOOSE j \in S : TRUE
       IN  FloatAdd(val[i], SumOver(S \ {i}, val))

MeanOver(S, val) == FloatDivInt(SumOver(S, val), Cardinality(S))

IsAtsFile == csv_file.kind = "file" /\ csv_file.columns = AtsColumns

IsTeamFile == csv_file.kind = "file" /\ csv_file.columns = TeamColumns

RowIdx == IF csv_file.kind = "file" THEN 1..Len(csv_file.rows) ELSE {}

\* records of an ATS file whose ats_diff is present and numeric
DiffPresent ==
  IF IsAtsFile THEN {i \in RowIdx : IsNumericCell(csv_file.rows[i].ats_diff)} ELSE {}

\* records of an ATS file whose ats_diff and spread are both numeric
AtsCounted == {i \in DiffPresent : IsNumericCell(csv_file.rows[i].spread)}

DiffVal == [i \in DiffPresent |-> float(csv_file.rows[i].ats_diff.s)]

SpreadVal == [i \in AtsCounted |-> float(csv_file.rows[i].spread.s)]

Zero == Float(0, 1)

\* every cell of a schedule file is empty or a number of its column's type
TeamFileClean ==
  /\ IsTeamFile
  /\ \A i \in RowIdx :
       LET r == csv_file.rows[i]
       IN  /\ r.team_score.s = Empty \/ IsIntCell(r.team_score)
           /\ r.opp_score.s = Empty \/ IsIntCell(r.opp_score)
           /\ r.spread.s = Empty \/ IsNumericCell(r.spread)
           /\ r.total.s = Empty \/ IsNumericCell(r.total)

\* records of a schedule file with both scores
HasScores ==
  IF IsTeamFile
  THEN {i \in RowIdx : IsIntCell(csv_file.rows[i].team_score)
                       /\ IsIntCell(csv_file.rows[i].opp_score)}
  ELSE {}

HasScoresTotal == {i \in HasScores : IsNumericCell(csv_file.rows[i].total)}

HasScoresSpread == {i \in HasScores : IsNumericCell(csv_file.rows[i].spread)}

TeamCounted == HasScoresTotal \cap HasScoresSpread

TotalMarginVal ==
  [i \in HasScoresTotal |->
     LET r == csv_file.rows[i]
     IN  FloatSub(FloatOfInt(int(r.team_score.s).n + int(r.opp_score.s).n), float(r.total.s))]

AtsMarginVal ==
  [i \in HasScoresSpread |->
     LET r == csv_file.rows[i]
     IN  FloatAdd(FloatOfInt(int(r.team_score.s).n - int(r.opp_score.s).n), float(r.spread.s))]

IsDict(m) == m.kind = "dict"

(***************************************************************************)
(* Properties of the metric computations                                   *)
(***************************************************************************)
\* C3: calculate_team_ats_metrics counts every record whose ats_diff is
\* present and numeric, whatever its spread: games_played and ats_decisions
\* are the number of such records and TOTAL_DIFF is the mean of their
\* ats_diff values (and a file with at least one such record has metrics).
C3_EveryPresentDiffCounted ==
  (ats_metrics # Unset /\ IsAtsFile) =>
    IF DiffPresent = {} THEN ats_metrics = None
    ELSE /\ IsDict(ats_metrics)
         /\ ats_metrics.games_played = Cardinality(DiffPresent)
         /\ ats_metrics.ats_decisions = Cardinality(DiffPresent)
         /\ ats_metrics.TOTAL_DIFF = MeanOver(DiffPresent, DiffVal)

\* C4: in calculate_team_metrics the spread statistics and the totals
\* statistic are filtered independently: TPI is the mean total margin over
\* the records with both scores and a total, SPI and games_played are over
\* the records with both scores and a spread.
C4_IndependentFilters ==
  (team_metrics # Unset /\ TeamFileClean) =>
    IF HasScoresTotal = {} /\ HasScoresSpread = {} THEN team_metrics = None
    ELSE /\ IsDict(team_metrics)
         /\ HasScoresTotal # {} =>
              team_metrics.TPI = MeanOver(HasScoresTotal, TotalMarginVal)
         /\ HasScoresSpread # {} =>
              /\ team_metrics.SPI = MeanOver(HasScoresSpread, AtsMarginVal)
              /\ team_metrics.games_played = Cardinality(HasScoresSpread)
              /\ team_metrics.ats_decisions = Cardinality(HasScoresSpread)

\* C5: CRI is the number of counted games with ats_diff > 0 over the number
\* of counted games; a counted game with ats_diff = 0 or < 0 stays in the
\* denominator and is a non-cover (ats_losses), for both computations.
C5_CoverRate ==
  /\ IsDict(ats_metrics) =>
       LET covers == {i \in AtsCounted : FloatGt(DiffVal[i], Zero)}
       IN  /\ ats_metrics.CRI = IntDivInt(Cardinality(covers), Cardinality(AtsCounted))
           /\ ats_metrics.ats_wins = Cardinality(covers)
           /\ ats_metrics.ats_losses = Cardinality(AtsCounted \ covers)
           /\ ats_metrics.ats_decisions = Cardinality(AtsCounted)
  /\ IsDict(team_metrics) =>
       LET covers == {i \in TeamCounted : FloatGt(AtsMarginVal[i], Zero)}
       IN  /\ team_metrics.CRI = IntDivInt(Cardinality(covers), Cardinality(TeamCounted))
           /\ team_metrics.ats_wins = Cardinality(covers)
           /\ team_metrics.ats_decisions = Cardinality(TeamCounted)

\* a push and a cover were both counted
C5_Witness ==
  /\ IsDict(ats_metrics)
  /\ \E i \in AtsCounted : DiffVal[i] = Zero
  /\ \E i \in AtsCounted : FloatGt(DiffVal[i], Zero)
  /\ ats_metrics.ats_losses >= 1
  /\ ats_metrics.ats_wins >= 1

\* C6: FAV_DIFF is the mean ats_diff over the counted games with spread < 0
\* and DOG_DIFF over those with spread > 0; each is None when its subset is
\* empty, and fav_games / dog_games are the sizes of the subsets.
C6_FavDogSplit ==
  IsDict(ats_metrics) =>
    LET fav == {i \in AtsCounted : FloatLt(SpreadVal[i], Zero)}
        dog == {i \in AtsCounted : FloatGt(SpreadVal[i], Zero)}
    IN  /\ ats_metrics.fav_games = Cardinality(fav)
        /\ ats_metrics.dog_games = Cardinality(dog)
        /\ ats_metrics.FAV_DIFF = IF fav = {} THEN None ELSE MeanOver(fav, DiffVal)
        /\ ats_metrics.DOG_DIFF = IF dog = {} THEN None ELSE MeanOver(dog, DiffVal)

\* no favourite game, two underdog games with diffs 7 and -3
C6_Witness ==
  /\ IsDict(ats_metrics)
  /\ ats_metrics.FAV_DIFF = None
  /\ ats_metrics.dog_games = 2
  /\ ats_metrics.DOG_DIFF = Float(2, 1)

\* the file without the rows at the indices in S
RECURSIVE DropRows(_, _, _)
DropRows(rows, S, k) ==
  IF rows = <<>> THEN <<>>
  ELSE (IF k \in S THEN <<>> ELSE <<Head(rows)>>) \o DropRows(Tail(rows), S, k + 1)

Pickem == {i \in AtsCounted : SpreadVal[i] = Zero}

\* C7: a counted pick'em game (spread 0) is in TOTAL_DIFF, games_played and
\* CRI, and in neither FAV_DIFF/fav_games nor DOG_DIFF/dog_games: a file
\* with such a game has metrics, and compared with the same file without
\* its pick'em rows the favourite and underdog statistics are unchanged
\* while games_played and ats_decisions grow by the number of pick'em rows.
C7_PickemCounted ==
  (ats_metrics # Unset /\ Pickem # {}) =>
    LET rest == calculate_team_ats_metrics(
                  CsvFile(AtsColumns, DropRows(csv_file.rows, Pickem, 1)))
    IN  /\ IsDict(ats_metrics)
        /\ ats_metrics.TOTAL_DIFF = MeanOver(AtsCounted, DiffVal)
        /\ ats_metrics.games_played =
             Cardinality(Pickem) + (IF IsDict(rest) THEN rest.games_played ELSE 0)
        /\ ats_metrics.ats_decisions =
             Cardinality(Pickem) + (IF IsDict(rest) THEN rest.ats_decisions ELSE 0)
        /\ ats_metrics.fav_games = (IF IsDict(rest) THEN rest.fav_games ELSE 0)
        /\ ats_metrics.dog_games = (IF IsDict(rest) THEN rest.dog_games ELSE 0)
        /\ ats_metrics.FAV_DIFF = (IF IsDict(rest) THEN rest.FAV_DIFF ELSE None)
        /\ ats_metrics.DOG_DIFF = (IF IsDict(rest) THEN rest.DOG_DIFF ELSE None)

\* a pick'em game next to a favourite game
C7_Witness ==
  /\ IsDict(ats_metrics)
  /\ Pickem # {}
  /\ ats_metrics.fav_games >= 1
  /\ ats_metrics.games_played > ats_metrics.fav_games + ats_metrics.dog_games

\* C8: every metrics value produced for a team, by either computation,
\* carries an AVI that is the additive inverse of its TOTAL_DIFF / SPI.
C8_AviIsInverse ==
  /\ IsDict(ats_metrics) =>
       /\ "AVI" \in DOMAIN ats_metrics
       /\ ats_metrics.AVI = FloatNeg(ats_metrics.TOTAL_DIFF)
  /\ IsDict(team_metrics) =>
       /\ "AVI" \in DOMAIN team_metrics
       /\ team_metrics.AVI = FloatNeg(team_metrics.SPI)

\* C10: no mean or ratio divides by zero and no returned value holds a 0
\* standing for an empty subset: the computations never raise; a returned
\* dict has every denominator (games, decisions, total margins) at least 1,
\* so CRI, TPI, TOTAL_DIFF and SPI are quotients and not the fallback 0;
\* FAV_DIFF / DOG_DIFF are None exactly when their subset is empty; and a
\* file with no counted record gives None.
C10_NoZeroForNoData ==
  /\ ~IsRaised(ats_metrics)
  /\ ~IsRaised(team_metrics)
  /\ IsDict(ats_metrics) =>
       /\ ats_metrics.games_played >= 1
       /\ ats_metrics.ats_decisions >= 1
       /\ ats_metrics.TOTAL_DIFF.kind = "float"
       /\ ats_metrics.CRI.kind = "float"
       /\ ats_metrics.CRI.d = ats_metrics.ats_decisions
            \div Gcd(ats_metrics.ats_wins, ats_metrics.ats_decisions)
       /\ (ats_metrics.fav_games = 0) <=> (ats_metrics.FAV_DIFF = None)
       /\ (ats_metrics.dog_games = 0) <=> (ats_metrics.DOG_DIFF = None)
       /\ ats_metrics.FAV_DIFF.kind \in {"None", "float"}
       /\ ats_metrics.DOG_DIFF.kind \in {"None", "float"}
  /\ IsDict(team_metrics) =>
       /\ team_metrics.games_played >= 1
       /\ team_metrics.ats_decisions >= 1
       /\ Len(TeamLoop(TeamAcc0, csv_file.rows).total_margins) >= 1
       /\ team_metrics.SPI.kind = "float"
       /\ team_metrics.CRI.kind = "float"
       /\ team_metrics.TPI.kind = "float"
  /\ (ats_metrics # Unset /\ AtsCounted = {}) => ats_metrics = None
  /\ (team_metrics # Unset /\ TeamCounted = {}) => team_metrics = None

\* a dict whose cover rate is a true 0/n and whose favourite subset is empty
C10_Witness ==
  /\ IsDict(ats_metrics)
  /\ ats_metrics.ats_wins = 0
  /\ ats_metrics.CRI = Zero
  /\ ats_metrics.FAV_DIFF = None
  /\ ats_metrics.dog_games >= 1

(***************************************************************************)
(* Properties of the mapping over all teams and of the rankings            *)
(***************************************************************************)
\* the file at a name holds no record with a parsed ats_diff (or is missing)
NoParsedDiff(nm) ==
  \/ data_dir[nm] = Absent
  \/ \A i \in 1..Len(data_dir[nm].rows) : ~IsNumericCell(data_dir[nm].rows[i].ats_diff)

RankedTeams(ranking) == {ranking.items[i].key : i \in 1..Len(ranking.items)}

\* C9: a team with zero games having a parsed ats_diff (missing file, empty
\* file, or only rows without ats_diff) gets None from
\* calculate_team_ats_metrics, has no entry in the mapping built by
\* get_all_team_metrics, and is in no ranking of display_team_rankings.
C9_NoDataNoEntry ==
  \A nm \in AtsNames :
    NoParsedDiff(nm) =>
      /\ calculate_team_ats_metrics(data_dir[nm]) = None
      /\ all_metrics # Unset => SlugOf(nm) \notin DictKeys(all_metrics.items)
      /\ by_total_diff # Unset => SlugOf(nm) \notin RankedTeams(by_total_diff)
      /\ by_cri # Unset => SlugOf(nm) \notin RankedTeams(by_cri)

\* the rankings were built, one team's file has rows but no parsed ats_diff,
\* another team's file is missing, and a third team is ranked
C9_Witness ==
  /\ by_total_diff # Unset
  /\ by_cri # Unset
  /\ Len(by_total_diff.items) >= 1
  /\ \E nm \in AtsNames :
       /\ data_dir[nm] # Absent
       /\ data_dir[nm].rows # <<>>
       /\ NoParsedDiff(nm)
       /\ SlugOf(nm) \notin RankedTeams(by_total_diff)
  /\ \E nm \in AtsNames : data_dir[nm] = Absent

(***************************************************************************)
(* Properties of the table locators                                        *)
(***************************************************************************)
AtsMatches == {i \in 1..Len(soup.items) : AtsHeaderTest(soup.items[i])}

BettingMatches == {i \in 1..Len(soup.items) : BettingHeaderTest(soup.items[i])}

Least(S) == CHOOSE i \in S : \A j \in S : i <= j

\* C1: find_ats_table and find_betting_table each return the first table,
\* in document order, whose header row satisfies the locator's signature,
\* even when later tables satisfy it too, and None exactly when no table
\* of the document satisfies it.
C1_FirstMatchingTable ==
  /\ ats_table # Unset =>
       /\ (ats_table = None) <=> (AtsMatches = {})
       /\ AtsMatches # {} => ats_table = Element(Least(AtsMatches))
  /\ betting_table # Unset =>
       /\ (betting_table = None) <=> (BettingMatches = {})
       /\ BettingMatches # {} => betting_table = Element(Least(BettingMatches))

\* two tables satisfy the ATS signature and the first table of the page
\* does not; only a later table satisfies the betting signature
C1_Witness ==
  /\ ats_table # Unset
  /\ betting_table # Unset
  /\ Cardinality(AtsMatches) >= 2
  /\ 1 \notin AtsMatches
  /\ ats_table = Element(2)
  /\ BettingMatches = {3}
  /\ betting_table = Element(3)

(***************************************************************************)
(* Properties of the field normalizers                                     *)
(***************************************************************************)
\* C2: every field normalizer is total: for every input text, also for a
\* total cell whose over/under indicator is followed by an arbitrary run of
\* digits and dots, it returns a value or the missing value and never
\* raises an exception.
C2_NormalizersTotal ==
  parsed # Unset =>
    IF parsed.value.kind = "tuple"
    THEN ~IsRaised(parsed.value.first) /\ ~IsRaised(parsed.value.second)
    ELSE ~IsRaised(parsed.value)

(***************************************************************************)
(* Properties of the rankings                                              *)
(***************************************************************************)
\* the position of key k in the item list its
PosIn(its, k) == CHOOSE i \in 1..Len(its) : its[i].key = k

\* ranking is the items of mapping, each once, by descending field, with
\* items of equal field in the order the mapping holds them
StableDescending(ranking, mapping, field) ==
  /\ Len(ranking) = Len(mapping)
  /\ \A j \in 1..Len(ranking) :
       /\ ranking[j].key \in DictKeys(mapping)
       /\ ranking[j] = mapping[PosIn(mapping, ranking[j].key)]
  /\ \A a, b \in 1..Len(ranking) :
       a < b =>
         /\ ranking[a].key # ranking[b].key
         /\ ~FloatLt(ranking[a].value[field], ranking[b].value[field])
         /\ ranking[a].value[field] = ranking[b].value[field] =>
              PosIn(mapping, ranking[a].key) < PosIn(mapping, ranking[b].key)

C12_EndsAfterEveryTeam == pc = "done" => launched = BatchTeams

\* C12: once the driver has found the per-team scraper script, it starts a
\* child for every team exactly once and in list order, whatever the exit
\* status of the children before, and it ends, and only after the last
\* team's child.
C12_EveryTeamOnceInOrder ==
  /\ [](scraper_exists /\ pc = "done" => launched = BatchTeams)
  /\ [][launched' # launched =>
          /\ Len(launched) < Len(BatchTeams)
          /\ launched' = Append(launched, BatchTeams[Len(launched) + 1])]_vars
  /\ (scraper_exists ~> (pc = "done" /\ launched = BatchTeams))

\* the first team's scrape failed, a later one succeeded, and the driver
\* ended after a child was started for every team
C12_Witness ==
  /\ pc = "done"
  /\ scraper_exists
  /\ launched = BatchTeams
  /\ failed_teams # <<>>
  /\ failed_teams[1] = BatchTeams[1]
  /\ success_count > 0

(***************************************************************************)
(* Properties of a single-team scraper run                                 *)
(***************************************************************************)
\* the table the script's locator finds in the served page, None if none
Located(script) ==
  IF script = "scrape_ats_results"
  THEN TableAt(response.content, find_ats_table(response.content))
  ELSE TableAt(response.content, find_betting_table(response.content))

\* what the script's parser makes of that table
GamesOf(script) ==
  IF script = "scrape_ats_results"
  THEN parse_ats_table(Located(script), "atlanta-hawks")
  ELSE parse_betting_table(Located(script))

\* the run found the table and parsed no game row from it
ZeroRowsParsed(script) ==
  /\ Located(script) # None
  /\ GamesOf(script) = List(<<>>)

\* C13: a scraper run that was served a page without a matching table, or
\* with the table but no game row parsed from it, ends with a non-zero
\* exit status.
C13_NoTableOrNoRowsFails ==
  (scraper_exit # Unset /\ ~FetchFails(response)) =>
     ((Located(scraper_exit.by) = None \/ ZeroRowsParsed(scraper_exit.by))
        => scraper_exit.status # 0)

(***************************************************************************)
(* Malformed cells in the persisted records                                *)
(***************************************************************************)
\* C14: a non-numeric cell in one record never makes the team's metrics
\* absent: the record counts as lacking that field, and every statistic is
\* still computed from the records that hold all the numbers they need, by
\* calculate_team_metrics and by calculate_team_ats_metrics alike.
C14_MalformedCellIsLocal ==
  /\ (team_metrics # Unset /\ IsTeamFile /\ TeamCounted # {}) =>
       /\ IsDict(team_metrics)
       /\ team_metrics.games_played = Cardinality(TeamCounted)
       /\ team_metrics.SPI = MeanOver(TeamCounted, AtsMarginVal)
       /\ team_metrics.TPI = MeanOver(TeamCounted, TotalMarginVal)
  /\ (ats_metrics # Unset /\ IsAtsFile /\ AtsCounted # {}) =>
       /\ IsDict(ats_metrics)
       /\ ats_metrics.games_played = Cardinality(AtsCounted)
       /\ ats_metrics.TOTAL_DIFF = MeanOver(AtsCounted, DiffVal)

(***************************************************************************)
(* Properties of single normalizers                                        *)
(***************************************************************************)
\* digits with at most one point among them
PlainDecimal(u) ==
  /\ \A k \in 1..Len(u) : u[k] \in Digit \cup {"."}
  /\ \E k \in 1..Len(u) : u[k] \in Digit
  /\ Cardinality(DotPositions(u)) <= 1

\* a decimal behind at most one leading sign
SignedDecimal(t) == PlainDecimal(Unsigned(t))

\* C15: both parse_spread, on the trimmed text, return missing for "", "-",
\* "N/A" and "PK" in any case, the signed value for a decimal with at most
\* one leading sign, and missing for every other text, a text with a '+'
\* behind the first position included.
C15_ParseSpread ==
  (parsed # Unset /\ parsed.by \in {"ats.parse_spread", "betting.parse_spread"}) =>
     LET t == clean_text(text.s)
     IN  IF t = <<>> \/ t = W_dash \/ lower(t) \in {<<"n", "/", "a">>, <<"p", "k">>}
         THEN parsed.value = None
         ELSE IF SignedDecimal(t) THEN parsed.value = float(t)
         ELSE parsed.value = None

\* t begins with O, Ov, U or Un in any case, of length n
IndicatorPrefix(t, n) ==
  /\ n <= Len(t)
  /\ \/ n = 1 /\ t[1] \in {"O", "o", "U", "u"}
     \/ n = 2 /\ t[1] \in {"O", "o"} /\ t[2] \in {"v", "V"}
     \/ n = 2 /\ t[1] \in {"U", "u"} /\ t[2] \in {"n", "N"}

\* the runs <<k, e>> of digits and points that stand behind a leading
\* indicator and whitespace
IndicatedRuns(t) ==
  {r \in (1..Len(t)) \X (1..Len(t)) :
     /\ r[1] <= r[2]
     /\ \E n \in 1..2 :
          /\ IndicatorPrefix(t, n)
          /\ n + 1 < r[1]
          /\ \A k \in (n + 1)..(r[1] - 1) : t[k] \in Whitespace
     /\ \A k \in r[1]..r[2] : t[k] \in DigitOrDot
     /\ r[2] = Len(t) \/ t[r[2] + 1] \notin DigitOrDot}

\* C16: parse_total returns missing for "-" and "N/A"; for a text that
\* begins with an over/under indicator, whitespace and a number it returns
\* that number, on either side; for a text without a leading indicator it
\* returns the value if the whole text is a plain number, and missing
\* otherwise.
C16_ParseTotal ==
  (parsed # Unset /\ parsed.by = "parse_total") =>
     LET t == clean_text(text.s)
     IN  IF t = <<>> \/ t = W_dash \/ lower(t) = <<"n", "/", "a">>
         THEN parsed.value = None
         ELSE IF IndicatedRuns(t) # {}
         THEN \A r \in IndicatedRuns(t) :
                PlainDecimal(SubSeq(t, r[1], r[2])) =>
                  parsed.value = float(SubSeq(t, r[1], r[2]))
         ELSE IF SignedDecimal(t) THEN parsed.value = float(t)
         ELSE parsed.value = None

\* the digit runs <<w, e>> of t that stand behind W or L, whitespace, "by"
\* and whitespace, and end where the digits end
ResultMargins(t) ==
  {r \in (1..Len(t)) \X (1..Len(t)) :
     /\ r[1] <= r[2]
     /\ t[1] \in {"W", "L"}
     /\ \E b \in 3..Len(t) :
          /\ \A k \in 2..(b - 1) : t[k] \in Whitespace
          /\ b + 2 < r[1]
          /\ t[b] = "b" /\ t[b + 1] = "y"
          /\ \A k \in (b + 2)..(r[1] - 1) : t[k] \in Whitespace
     /\ \A k \in r[1]..r[2] : t[k] \in Digit
     /\ r[2] = Len(t) \/ t[r[2] + 1] \notin Digit}

\* the pair parse_result is to return for the margin run r of t
ResultOf(t, r) == Pair(Str(<<t[1]>>), PyInt(DigitsVal(SubSeq(t, r[1], r[2]))))

\* C17 as stated: parse_result returns (outcome, margin) exactly when the
\* whole trimmed text is W or L, "by" and an integer, and (missing, missing)
\* otherwise.
C17_WholeTextMatches ==
  (parsed # Unset /\ parsed.by = "parse_result") =>
     LET t == clean_text(text.s)
         whole == {r \in ResultMargins(t) : r[2] = Len(t)}
     IN  IF whole # {}
         THEN \A r \in whole : parsed.value = ResultOf(t, r)
         ELSE parsed.value = Pair(None, None)

\* C17: parse_result returns (outcome, margin), outcome W or L and margin a
\* non-negative integer, exactly when the trimmed text begins with an
\* upper-case W or L, "by" and an integer, whatever follows the integer,
\* and (missing, missing) otherwise; outcome and margin are both present or
\* both missing.
C17_ParseResult ==
  (parsed # Unset /\ parsed.by = "parse_result") =>
     LET t == clean_text(text.s)
     IN  /\ IF ResultMargins(t) # {}
            THEN \A r \in ResultMargins(t) : parsed.value = ResultOf(t, r)
            ELSE parsed.value = Pair(None, None)
         /\ (parsed.value.first = None) <=> (parsed.value.second = None)
         /\ parsed.value.first # None =>
              /\ parsed.value.first \in {Str(<<"W">>), Str(<<"L">>)}
              /\ parsed.value.second.kind = "int"
              /\ parsed.value.second.n >= 0

\* a result with text behind the margin was parsed
C17_Witness ==
  /\ parsed # Unset
  /\ parsed.by = "parse_result"
  /\ text.s = <<"W", " ", "b", "y", " ", "3", " ", "O", "T">>
  /\ parsed.value = Pair(Str(<<"W">>), PyInt(3))

(***************************************************************************)
(* The header signatures                                                   *)
(***************************************************************************)
\* every word occurs as a header cell or inside the joined header text of
\* the table's first header row
HasSignature(table, words) ==
  /\ table.thead # None
  /\ table.thead.rows # <<>>
  /\ \A w \in words :
       \/ InList(w, HeadersOf(table.thead.rows[1]))
       \/ Contains(JoinSpace(HeadersOf(table.thead.rows[1])), w)

AtsSigned ==
  {i \in 1..Len(soup.items) :
     HasSignature(soup.items[i], {W_date, W_opponent, W_line, W_diff})}

BettingSigned ==
  {i \in 1..Len(soup.items) : HasSignature(soup.items[i], required_cols)}

\* C18: each locator takes a table if and only if every word of its
\* signature (ATS: date, opponent, line, diff; schedule/betting: date,
\* opponent, result, spread, total) occurs, in any case, as a header cell
\* or inside the space-joined header text of the first header row; a table
\* without a header section is never taken.
C18_SignatureByWords ==
  /\ ats_table # Unset =>
       ats_table = IF AtsSigned = {} THEN None ELSE Element(Least(AtsSigned))
  /\ betting_table # Unset =>
       betting_table =
         IF BettingSigned = {} THEN None ELSE Element(Least(BettingSigned))

(***************************************************************************)
(* Rows of a table body and the records made of them                       *)
(***************************************************************************)
\* the body rows the parser was given
BodyRows == IF body_table.tbody = None THEN <<>> ELSE body_table.tbody.rows

\* the least number of cells of a row of the table the parser reads
MinCells(fn) == IF fn = "parse_ats_table" THEN 7 ELSE 9

\* the first cell is the header label, empty or the placeholder dash
HeadedByLabel(cells) ==
  \/ lower(clean_text(cells[1])) = W_date
  \/ clean_text(cells[1]) = <<>>
  \/ clean_text(cells[1]) = W_dash

\* a row that stands for no game: too short, a repeated header row, without
\* a date, or holding a footnote marker in one of its cells
Rejected(cells, fn) ==
  \/ Len(cells) < MinCells(fn)
  \/ HeadedByLabel(cells)
  \/ \E k \in 1..Len(cells) : Contains(lower(clean_text(cells[k])), W_note)

NonRejected(fn) == SelectSeq(BodyRows, LAMBDA cells : ~Rejected(cells, fn))

\* C19: a body row with fewer than 7 (ATS) or 9 (schedule/betting) cells
\* produces no record, and the output of either parser holds exactly one
\* record per non-rejected row, in the order of the rows: the k-th record
\* is the one of the k-th non-rejected row.
C19_OneRecordPerRowInOrder ==
  games # Unset =>
     LET kept == NonRejected(games.by)
     IN  /\ games.value.kind = "list"
         /\ Len(games.value.items) = Len(kept)
         /\ \A k \in 1..Len(kept) :
              /\ games.value.items[k].date = Str(clean_text(kept[k][1]))
              /\ games.value.items[k].opponent =
                   Str(clean_text(kept[k][IF games.by = "parse_ats_table"
                                          THEN 3 ELSE 2]))

\* C20: in the output of either parser no record stands for a row whose
\* first cell is "Date" in any case, empty, or the dash "-".
C20_NoRecordOfLabelledRow ==
  (games # Unset /\ games.value.kind = "list") =>
     /\ \A k \in 1..Len(games.value.items) :
          /\ lower(games.value.items[k].date.s) # W_date
          /\ games.value.items[k].date.s # <<>>
          /\ games.value.items[k].date.s # W_dash
     /\ Len(games.value.items) <=
          Len(SelectSeq(BodyRows, LAMBDA cells : cells # <<>> /\ ~HeadedByLabel(cells)))

(***************************************************************************)
(* Footnote rows                                                           *)
(***************************************************************************)
\* one of the row's cells holds the footnote marker
HasFootnote(cells) ==
  \E k \in 1..Len(cells) : Contains(lower(clean_text(cells[k])), W_note)

\* the table without the rows that hold a footnote marker
WithoutFootnotes ==
  IF body_table.tbody = None THEN body_table
  ELSE BodyTable(body_table.thead,
                 Tbody(SelectSeq(body_table.tbody.rows,
                                 LAMBDA cells : ~HasFootnote(cells))))

\* C21: in either parser a body row with the footnote marker in any of its
\* cells produces no record: the output is the one of the table without
\* these rows.
C21_FootnoteRowsGiveNoRecord ==
  games # Unset =>
     games.value = IF games.by = "parse_ats_table"
                   THEN parse_ats_table(WithoutFootnotes, "atlanta-hawks")
                   ELSE parse_betting_table(WithoutFootnotes)

(***************************************************************************)
(* The fields of the records                                               *)
(***************************************************************************)
\* every body row made a record, so that the k-th record is the one of the
\* k-th row
EveryRowRecorded ==
  /\ games # Unset
  /\ games.value.kind = "list"
  /\ Len(games.value.items) = Len(BodyRows)

\* the cleaned, lower-cased location cell of a row
LocationOf(cells, fn) ==
  lower(clean_text(cells[IF fn = "parse_ats_table" THEN 2 ELSE 4]))

\* C22: in either parser a record's home_away is the location cell of its
\* row whenever that cell reads home, away or neutral in any case, and the
\* home_away of every record is one of home, away, neutral.
C22_HomeAwayFromLocation ==
  /\ (games # Unset /\ games.value.kind = "list") =>
       \A k \in 1..Len(games.value.items) :
          games.value.items[k].home_away
             \in {Str(W_home), Str(W_away), Str(W_neutral)}
  /\ EveryRowRecorded =>
       \A k \in 1..Len(BodyRows) :
          LocationOf(BodyRows[k], games.by) \in {W_home, W_away, W_neutral}
             => games.value.items[k].home_away =
                  Str(LocationOf(BodyRows[k], games.by))

(***************************************************************************)
(* Home or away from the opponent text                                     *)
(***************************************************************************)
\* the text begins with '@' or with 'at ' in any letter case
AwayPrefixed(t) ==
  \/ (t # <<>> /\ t[1] = "@")
  \/ (Len(t) >= 3 /\ lower(SubSeq(t, 1, 3)) = <<"a", "t", " ">>)

\* C23: infer_home_away returns away exactly when the cleaned opponent
\* text begins with '@' or with 'at ' in any letter case, and home
\* otherwise; the name extract_opponent_name returns for an away opponent
\* does not begin with '@' or 'at ', and the name of a home opponent is the
\* cleaned text itself.
C23_AwayPrefix ==
  /\ (parsed # Unset /\ parsed.by = "infer_home_away") =>
       parsed.value = IF AwayPrefixed(clean_text(text.s))
                      THEN Str(W_away) ELSE Str(W_home)
  /\ (parsed # Unset /\ parsed.by = "extract_opponent_name") =>
       IF AwayPrefixed(clean_text(text.s))
       THEN ~AwayPrefixed(parsed.value.s)
       ELSE parsed.value.s = clean_text(text.s)

\* a cell that stands for no value
MissingCell(c) == c = <<>> \/ c = W_dash \/ lower(c) = <<"n", "/", "a">>

\* the value of a cell holding a decimal number, None for any other cell
DecimalOrNone(c) ==
  IF MissingCell(c) \/ ~SignedDecimal(c) THEN None ELSE float(c)

\* the value of a cell holding a whole number, None for any other cell
WholeOrNone(c) ==
  IF MissingCell(c) \/ ~IsDigits(Unsigned(c)) THEN None ELSE int(c)

\* a cell that holds no total: no value, or neither a number nor a number
\* behind a leading over/under indicator
NoTotal(c) == MissingCell(c) \/ (~SignedDecimal(c) /\ IndicatedRuns(c) = {})

\* the fields of a record of parse_ats_table against the cells of its row
AtsFieldsParsed(g, cells) ==
  /\ g.opp_rank = WholeOrNone(clean_text(cells[4]))
  /\ g.spread = IF lower(clean_text(cells[5])) = <<"p", "k">>
                THEN None ELSE DecimalOrNone(clean_text(cells[5]))
  /\ g.ats_diff = DecimalOrNone(clean_text(cells[7]))
  /\ (g.result = None) <=> (g.margin = None)
  /\ ResultMargins(clean_text(cells[6])) = {} => g.margin = None
  /\ \A r \in ResultMargins(clean_text(cells[6])) :
        g.margin = PyInt(DigitsVal(SubSeq(clean_text(cells[6]), r[1], r[2])))

\* the fields of a record of parse_betting_table against the cells of its row
BettingFieldsParsed(g, cells) ==
  /\ g.spread = IF lower(clean_text(cells[7])) = <<"p", "k">>
                THEN None ELSE DecimalOrNone(clean_text(cells[7]))
  /\ g.moneyline = WholeOrNone(clean_text(cells[9]))
  /\ NoTotal(clean_text(cells[8])) => g.total = None
  /\ clean_text(cells[8]) = <<"0">> => g.total = Float(0, 1)
  /\ (g.team_score = None) <=> (g.opp_score = None)
  /\ MissingCell(clean_text(cells[3])) => g.team_score = None
  /\ clean_text(cells[3]) = <<"W", " ", "0", "-", "0">> =>
       g.team_score = PyInt(0) /\ g.opp_score = PyInt(0)

\* C24: in every record of parse_ats_table and parse_betting_table each
\* optional field is the value its cell holds or None: a cell that is
\* empty, a dash, N/A or not a number of the field's form gives None,
\* never 0 or another number, and a cell that holds 0 gives 0.
C24_OptionalFieldsParsedOrNone ==
  EveryRowRecorded =>
     \A k \in 1..Len(BodyRows) :
        IF games.by = "parse_ats_table"
        THEN AtsFieldsParsed(games.value.items[k], BodyRows[k])
        ELSE BettingFieldsParsed(games.value.items[k], BodyRows[k])

(***************************************************************************)
(* The counts of an ATS metrics dict                                       *)
(***************************************************************************)
\* C25: a metrics dict of calculate_team_ats_metrics has games_played =
\* ats_wins + ats_losses = ats_decisions >= 1, fav_games + dog_games <=
\* games_played with equality exactly when no counted game has spread 0,
\* 0 <= CRI <= 1, and FAV_DIFF (DOG_DIFF) None if and only if fav_games
\* (dog_games) is 0.
C25_MetricCounts ==
  IsDict(ats_metrics) =>
     /\ ats_metrics.games_played = ats_metrics.ats_wins + ats_metrics.ats_losses
     /\ ats_metrics.games_played = ats_metrics.ats_decisions
     /\ ats_metrics.games_played >= 1
     /\ ats_metrics.fav_games + ats_metrics.dog_games <= ats_metrics.games_played
     /\ (ats_metrics.fav_games + ats_metrics.dog_games = ats_metrics.games_played)
          <=> (\A i \in AtsCounted : SpreadVal[i] # Zero)
     /\ ats_metrics.CRI.kind = "float"
     /\ ~FloatLt(ats_metrics.CRI, Zero)
     /\ ~FloatGt(ats_metrics.CRI, Float(1, 1))
     /\ (ats_metrics.FAV_DIFF = None) <=> (ats_metrics.fav_games = 0)
     /\ (ats_metrics.DOG_DIFF = None) <=> (ats_metrics.dog_games = 0)

(***************************************************************************)
(* The tally of the batch driver                                           *)
(***************************************************************************)
\* the teams, in the order the children ran, whose child's exit status was
\* not 0
RECURSIVE NonZeroExits(_, _)
NonZeroExits(teams, codes) ==
  IF teams = <<>> THEN <<>>
  ELSE IF Head(codes) # 0
  THEN <<Head(teams)>> \o NonZeroExits(Tail(teams), Tail(codes))
  ELSE NonZeroExits(Tail(teams), Tail(codes))

\* the tally is complete and the exit status tells whether a team failed
TallyComplete ==
  /\ success_count + Len(failed_teams) = Len(BatchTeams)
  /\ failed_teams = NonZeroExits(launched, returncodes)
  /\ (driver_exit.status # 0) <=> (failed_teams # <<>>)

\* C26 as stated: whenever scrape_all_ats has finished, success_count +
\* len(failed_teams) is the number of teams, failed_teams holds the teams
\* whose scraper exited non-zero, once each and in list order, and the
\* driver's exit status is non-zero exactly when failed_teams is non-empty.
C26_TallyWheneverFinished == pc = "done" => TallyComplete

\* C26: when scrape_all_ats finishes after having found the scraper script,
\* success_count + len(failed_teams) is the number of teams, failed_teams
\* holds the teams whose scraper exited non-zero, once each and in list
\* order, and the driver's exit status is non-zero exactly when
\* failed_teams is non-empty.
C26_TallyAfterLoop == (pc = "done" /\ scraper_exists) => TallyComplete

\* a finished run in which one team succeeded and another failed
C26_Witness ==
  /\ pc = "done"
  /\ scraper_exists
  /\ success_count >= 1
  /\ Len(failed_teams) >= 1
  /\ driver_exit.status = 1

(***************************************************************************)
(* The output file of a scraper run that fails early                       *)
(***************************************************************************)
\* C27: a scraper run whose page fetch fails or whose page holds no
\* matching table leaves the csv at the output path as it was; the file
\* changes only in a run that located a table.
C27_NoTableNoWrite ==
  [][(/\ scraper_exit = Unset
      /\ scraper_exit' # Unset
      /\ (FetchFails(response) \/ Located(scraper_exit'.by) = None))
        => output_file' = output_file]_vars

\* the ATS scraper fetched a page without a matching table and the file of
\* an earlier run is still at the output path
C27_Witness ==
  /\ scraper_exit = Ran("scrape_ats_results", 1)
  /\ ~FetchFails(response)
  /\ Located("scrape_ats_results") = None
  /\ output_file = OldAtsFile

(***************************************************************************)
(* The two parse_spread side by side                                       *)
(***************************************************************************)
\* C30: parse_spread of scrape_ats_results and parse_spread of
\* scrape_teamrankings_nba return the same result, value or None, for
\* every text.
C30_SameSpread ==
  /\ (parsed # Unset /\ parsed.by = "ats.parse_spread") =>
       parsed.value = betting_parse_spread(text.s)
  /\ (parsed # Unset /\ parsed.by = "betting.parse_spread") =>
       parsed.value = ats_parse_spread(text.s)

(***************************************************************************)
(* Properties of load_metrics_for_games                                    *)
(***************************************************************************)
\* the positions of the two loops
Positions == 1..(2 * Len(page_games))

\* no element occurs twice in the sequence
NoRepeat(q) == \A i, j \in 1..Len(q) : i # j => q[i] # q[j]

\* C28: in one run of load_metrics_for_games the refresh-and-compute step
\* is done at most once for a slug, whatever the games and their order;
\* at the end all TeamInfo of one slug hold the same metrics, each slug of
\* the games was computed, and a team without a slug was never refreshed
\* and holds metrics None.
C28_OncePerSlug ==
  /\ NoRepeat(computed)
  /\ NoRepeat(launched)
  /\ \A k \in Positions :
       TeamAt(page_games, k).slug = None => TeamAt(page_games, k).metrics = None
  /\ pc = "done" =>
       /\ \A k, l \in Positions :
            TeamAt(page_games, k).slug = TeamAt(page_games, l).slug
               => TeamAt(page_games, k).metrics = TeamAt(page_games, l).metrics
       /\ {computed[i] : i \in 1..Len(computed)} =
            {TeamAt(page_games, k).slug.s :
               k \in {l \in Positions : TeamAt(page_games, l).slug # None}}

\* a team that plays in two games of the list holds the same metrics dict
\* in both, computed once
C28_Witness ==
  /\ pc = "done"
  /\ Len(page_games) = 2
  /\ page_games[1].home.slug = Str("atlanta-hawks")
  /\ page_games[2].away.slug = Str("atlanta-hawks")
  /\ page_games[1].home.metrics.kind = "dict"
  /\ page_games[2].away.metrics = page_games[1].home.metrics
  /\ Len(computed) = 1

\* the csv holds a record whose ats_diff is present and numeric
HasQualifyingRow(file) ==
  /\ file.kind = "file"
  /\ \E i \in 1..Len(file.rows) : IsNumericCell(file.rows[i].ats_diff)

\* C29: a failed refresh does not end load_metrics_for_games: at the end
\* the metrics of every team whose child failed are those of the csv at the
\* team's path, None only if there is no file or no record of it
\* qualifies, and every team of the list with a slug has its metrics.
C29_FailedRefreshStillComputed ==
  pc = "done" =>
     /\ \A k \in 1..Len(launched) :
          returncodes[k] # 0 =>
             /\ launched[k] \in DictKeys(seen)
             /\ (DictGet(seen, launched[k]) = None)
                  <=> ~HasQualifyingRow(files[launched[k]])
     /\ \A k \in Positions :
          TeamAt(page_games, k).slug # None =>
             /\ TeamAt(page_games, k).slug.s \in DictKeys(seen)
             /\ TeamAt(page_games, k).metrics =
                  DictGet(seen, TeamAt(page_games, k).slug.s)

====
